---- MODULE Spec2Model ----
(***************************************************************************)
(* A model of the ledger engine of ai-money:                               *)
(*   backend/database/models.py      the rows and their constraints        *)
(*   backend/database/repository.py  AccountRepository, TransactionRepository *)
(*   backend/database/session.py     the unit of work (session_context)    *)
(*                                                                         *)
(* The store is a PostgreSQL database read at READ COMMITTED: a session    *)
(* sees the committed rows and the rows its own open transaction wrote.    *)
(* A SQLAlchemy session holds, besides that open transaction, the objects  *)
(* that were add()ed and not yet flushed.                                  *)
(*                                                                         *)
(* Amounts are integers in units of 0.0001, the scale of the               *)
(* Numeric(20, 4) columns, so Decimal("0.001") is 10.                      *)
(* Python's None is the empty sequence, a present value v is <<v>>.        *)
(***************************************************************************)
EXTENDS Integers, Sequences, FiniteSets, TLC

\* ---------------------------------------------------------------- bounds
MaxAccounts == 2
MaxTxns == 2
MaxPostings == 3
MaxBalances == 3
MaxRates == 2

\* ------------------------------------------------------------- constants
\* Decimal("0.001") in units of 0.0001
EPS == 10

Sessions == {"s1", "s2"}
None == <<>>
Some(v) == <<v>>
IsNone(o) == o = <<>>
Val(o) == o[1]

Currencies == {"USD", "EUR"}
Dates == {1, 2}

\* ---------------------------------------------------------- account names
\* A name is a sequence of tokens; the token ":" is the path separator and
\* any other token is a run of letters, so <<"Assets", "x">> is "Assetsx".
SEP == ":"

\* enum AccountType: the five values
AccountTypeValues ==
    {<<"Assets">>, <<"Liabilities">>, <<"Equity">>, <<"Income">>, <<"Expenses">>}

\* the names the model passes to the account operations
Names ==
    { <<"Assets", SEP, "Bank">>,
      <<"Expenses", SEP, "Food">>,
      <<"Assets", "x">>,
      <<"Bogus", SEP, "Food">> }

\* A plausible slip: the type is read off the first token, so "Assetsx" passes.
FirstComponent_firstToken(name) ==
    IF name = <<>> THEN <<>> ELSE <<name[1]>>

\* name.split(":")[0]
FirstComponent(name) ==
    LET seps == {i \in 1..Len(name) : name[i] = SEP}
        stop == IF seps = {} THEN Len(name) + 1
                ELSE CHOOSE i \in seps : \A j \in seps : i <= j
    IN  SubSeq(name, 1, stop - 1)

\* AccountType(first_component) raises ValueError outside the enum
ValidType(name) == FirstComponent(name) \in AccountTypeValues

\* ------------------------------------------------------------------ state
VARIABLES
    db,       \* the committed rows, one set per table
    delta,    \* per session: the rows its open transaction inserted (ins)
              \* and the committed rows it deleted or superseded (gone)
    pending,  \* per session: objects add()ed to the session and not flushed
    pc,       \* per session: where its caller stands
    cur,      \* per session: the create call in progress
    last,     \* per session: what its last repository call returned or raised
    hist,     \* per transaction id: the create call that made it (history)
    next      \* the next fresh account id and transaction id (uuid4)

vars == <<db, delta, pending, pc, cur, last, hist, next>>

Tables == {"accounts", "transactions", "postings", "tags", "links",
           "balances", "rates"}
EmptyTables == [t \in Tables |-> {}]
EmptyDelta == [ins |-> EmptyTables, gone |-> EmptyTables]
EmptyPending == [postings |-> <<>>, tags |-> <<>>, links |-> <<>>]

Range(f) == {f[i] : i \in DOMAIN f}

\* What a statement of session s reads: the committed rows, less those its
\* transaction deleted or superseded, plus those it inserted.
ViewOf(d) == [t \in Tables |-> (db[t] \ d.gone[t]) \cup d.ins[t]]
View(s) == ViewOf(delta[s])

\* An UPDATE of row old to row new in table t by a transaction with delta d.
UpdateRow(d, t, old, new) ==
    [d EXCEPT !.ins[t] = (@ \ {old}) \cup {new},
              !.gone[t] = IF old \in db[t] THEN @ \cup {old} ELSE @]

\* An INSERT of row r into table t.
InsertRow(d, t, r) == [d EXCEPT !.ins[t] = @ \cup {r}]

\* ------------------------------------------------------------------ flush
\* Session.flush() writes the pending objects. The store refuses a posting
\* whose account or transaction is missing (ForeignKey, models.py) and a
\* second (transaction, tag) or (transaction, link) pair (UniqueConstraint).
NoRepeat(seq) == \A i, j \in DOMAIN seq : i # j => seq[i] # seq[j]

FlushOk(d, p) ==
    LET v == ViewOf(d)
    IN  /\ \A x \in Range(p.postings) :
              /\ \E a \in v.accounts : a.id = x.account_id
              /\ \E t \in v.transactions : t.id = x.txn
        /\ NoRepeat(p.tags)
        /\ NoRepeat(p.links)
        /\ Range(p.tags) \cap v.tags = {}
        /\ Range(p.links) \cap v.links = {}

Flushed(d, p) ==
    [d EXCEPT !.ins.postings = @ \cup Range(p.postings),
              !.ins.tags = @ \cup Range(p.tags),
              !.ins.links = @ \cup Range(p.links)]

\* --------------------------------------------------------------- results
\* What a repository call leaves with its caller. status is "ok" (returned),
\* "ValueError" (raised by the repository) or "IntegrityError" (raised by
\* the store during a flush).
NoResult ==
    [op |-> "none", status |-> "none", name |-> <<>>, acct |-> None,
     created |-> FALSE, txn |-> 0, ret |-> None, error |-> "none",
     total |-> None, found |-> {}, args |-> None]

Res(op, status) == [NoResult EXCEPT !.op = op, !.status = status]

\* The caller's position after a call: a ValueError leaves the session
\* usable; a failed flush has rolled the transaction back and the session
\* refuses further work until rollback() is called.
After(status) ==
    CASE status = "ok" -> "idle"
      [] status = "ValueError" -> "raised"
      [] OTHER -> "inactive"

\* The session part of a step: out is [status, delta, pending, res].
Leave(s, out) ==
    /\ delta' = [delta EXCEPT ![s] = out.delta]
    /\ pending' = [pending EXCEPT ![s] = out.pending]
    /\ pc' = [pc EXCEPT ![s] = After(out.status)]
    /\ last' = [last EXCEPT ![s] = out.res]

Out(status, d, p, res) ==
    [status |-> status, delta |-> d, pending |-> p, res |-> res]

\* A flush that the store refuses: SQLAlchemy rolls the session's
\* transaction back and expunges what was pending in it.
FlushFailure(res) == Out("IntegrityError", EmptyDelta, EmptyPending, res)

\* Autoflush before a query, and Session.flush(): [ok, delta, pending].
Autoflush(d, p) ==
    IF FlushOk(d, p)
    THEN [ok |-> TRUE, delta |-> Flushed(d, p), pending |-> EmptyPending]
    ELSE [ok |-> FALSE, delta |-> EmptyDelta, pending |-> EmptyPending]

\* A slip: a new account is stored inactive.
NewAccount_inactive(id, name, open_date, currency, description) ==
    [id |-> id, name |-> name, account_type |-> FirstComponent(name),
     currency |-> currency, open_date |-> open_date, close_date |-> None,
     description |-> description, is_active |-> FALSE]

\* --------------------------------------------------------------- accounts
NewAccount(id, name, open_date, currency, description) ==
    [id |-> id, name |-> name, account_type |-> FirstComponent(name),
     currency |-> currency, open_date |-> open_date, close_date |-> None,
     description |-> description, is_active |-> TRUE]

\* Account.name is unique: an INSERT of a name that another open
\* transaction has inserted waits for that transaction to end.
NameLockedByOther(s, name) ==
    \E t \in Sessions \ {s} : \E a \in delta[t].ins.accounts : a.name = name

\* AccountRepository.create from a session with delta d and pending p
AccountCreateOut(d, p, name, open_date, currency, description) ==
    LET r == [Res("account.create", "ok") EXCEPT !.name = name]
        acct == NewAccount(next.acc, name, open_date, currency, description)
        dup == \E a \in ViewOf(d).accounts : a.name = name
    IN  IF ~ValidType(name)
        THEN Out("ValueError", d, p, [r EXCEPT !.status = "ValueError"])
        ELSE IF dup \/ ~FlushOk(d, p)
        THEN FlushFailure([r EXCEPT !.status = "IntegrityError"])
        ELSE Out("ok", InsertRow(Flushed(d, p), "accounts", acct), EmptyPending,
                 [r EXCEPT !.acct = Some(acct), !.created = TRUE])

\* the ids are fresh: a call that inserts takes the next one
TakeAccountId(out) ==
    IF out.status = "ok" /\ out.res.created
    THEN /\ next.acc <= MaxAccounts
         /\ next' = [next EXCEPT !.acc = @ + 1]
    ELSE UNCHANGED next

AccountCreate(s, name, open_date, currency, description) ==
    LET out == AccountCreateOut(delta[s], pending[s], name, open_date,
                                currency, description)
    IN  /\ ~NameLockedByOther(s, name)
        /\ TakeAccountId(out)
        /\ Leave(s, out)
        /\ UNCHANGED <<db, cur, hist>>

\* AccountRepository.get_by_name on a flushed view: the row or None
GetByName(v, name) ==
    IF \E a \in v.accounts : a.name = name
    THEN Some(CHOOSE a \in v.accounts : a.name = name)
    ELSE None

\* A plausible slip: get_or_create overwrites the stored currency.
GetOrCreateOut_overwrites(d, p, name, open_date, currency, description) ==
    LET r == [Res("account.get_or_create", "ok") EXCEPT
                 !.name = name,
                 !.args = Some([open_date |-> open_date, currency |-> currency,
                                description |-> description])]
        af == Autoflush(d, p)
        found == GetByName(ViewOf(af.delta), name)
        upd == [Val(found) EXCEPT !.currency = currency]
        made == AccountCreateOut(af.delta, af.pending, name, open_date,
                                 currency, description)
    IN  IF ~af.ok
        THEN FlushFailure([r EXCEPT !.status = "IntegrityError"])
        ELSE IF ~IsNone(found)
        THEN Out("ok", UpdateRow(af.delta, "accounts", Val(found), upd),
                 af.pending, [r EXCEPT !.acct = Some(upd)])
        ELSE [made EXCEPT !.res.op = r.op, !.res.args = r.args]

\* AccountRepository.get_or_create
GetOrCreateOut(d, p, name, open_date, currency, description) ==
    LET r == [Res("account.get_or_create", "ok") EXCEPT
                 !.name = name,
                 !.args = Some([open_date |-> open_date, currency |-> currency,
                                description |-> description])]
        af == Autoflush(d, p)
        found == GetByName(ViewOf(af.delta), name)
        made == AccountCreateOut(af.delta, af.pending, name, open_date,
                                 currency, description)
    IN  IF ~af.ok
        THEN FlushFailure([r EXCEPT !.status = "IntegrityError"])
        ELSE IF ~IsNone(found)
        THEN Out("ok", af.delta, af.pending, [r EXCEPT !.acct = found])
        ELSE [made EXCEPT !.res.op = r.op, !.res.args = r.args]

GetOrCreate(s, name, open_date, currency, description) ==
    LET out == GetOrCreateOut(delta[s], pending[s], name, open_date,
                              currency, description)
    IN  /\ ~NameLockedByOther(s, name)
        /\ TakeAccountId(out)
        /\ Leave(s, out)
        /\ UNCHANGED <<db, cur, hist>>

\* AccountRepository.get_by_id on a flushed view
GetAccountById(v, id) ==
    IF \E a \in v.accounts : a.id = id
    THEN Some(CHOOSE a \in v.accounts : a.id = id)
    ELSE None

\* A slip: close_account sets the date and leaves the account active.
CloseAccountOut_keepsActive(d, p, account_id, close_date) ==
    LET r == Res("account.close_account", "ok")
        af == Autoflush(d, p)
        found == GetAccountById(ViewOf(af.delta), account_id)
        upd == [Val(found) EXCEPT !.close_date = Some(close_date)]
    IN  IF ~af.ok
        THEN FlushFailure([r EXCEPT !.status = "IntegrityError"])
        ELSE IF IsNone(found)
        THEN Out("ok", af.delta, af.pending, r)
        ELSE Out("ok", UpdateRow(af.delta, "accounts", Val(found), upd),
                 af.pending, [r EXCEPT !.acct = Some(upd)])

\* AccountRepository.close_account
CloseAccountOut(d, p, account_id, close_date) ==
    LET r == Res("account.close_account", "ok")
        af == Autoflush(d, p)
        found == GetAccountById(ViewOf(af.delta), account_id)
        upd == [Val(found) EXCEPT !.close_date = Some(close_date),
                                  !.is_active = FALSE]
    IN  IF ~af.ok
        THEN FlushFailure([r EXCEPT !.status = "IntegrityError"])
        ELSE IF IsNone(found)
        THEN Out("ok", af.delta, af.pending, r)
        ELSE Out("ok", UpdateRow(af.delta, "accounts", Val(found), upd),
                 af.pending, [r EXCEPT !.acct = Some(upd)])

CloseAccount(s, account_id, close_date) ==
    /\ Leave(s, CloseAccountOut(delta[s], pending[s], account_id, close_date))
    /\ UNCHANGED <<db, cur, hist, next>>

\* ----------------------------------------------------------- transactions
Abs(x) == IF x < 0 THEN -x ELSE x

RECURSIVE SumAmounts(_)
\* sum(p.amount for p in postings if p.amount is not None)
SumAmounts(ps) ==
    IF ps = {} THEN 0
    ELSE LET x == CHOOSE y \in ps : TRUE
         IN  (IF IsNone(x.amount) THEN 0 ELSE Val(x.amount))
             + SumAmounts(ps \ {x})

\* Transaction.is_balanced over the postings of a loaded transaction
IsBalanced(ps) == Abs(SumAmounts(ps)) < EPS

\* posting_data.get("currency", "USD")
PostingCurrency(pd) == IF IsNone(pd.currency) THEN "USD" ELSE Val(pd.currency)

\* A plausible slip: only the postings in the default currency are summed.
ScanAdd_perCurrency(total, pd) ==
    IF PostingCurrency(pd) = "USD" THEN total + Val(pd.amount) ELSE total

\* total += Decimal(str(amount)), whatever the posting's currency
ScanAdd(total, pd) == total + Val(pd.amount)

RECURSIVE Scan(_, _, _, _)
\* The first loop of TransactionRepository.create from index i on:
\* [multi, total, auto], auto the 0-based index of the posting to balance.
Scan(postings, i, total, auto) ==
    IF i > Len(postings)
    THEN [multi |-> FALSE, total |-> total, auto |-> auto]
    ELSE IF IsNone(postings[i].amount)
    THEN IF ~IsNone(auto)
         THEN [multi |-> TRUE, total |-> total, auto |-> auto]
         ELSE Scan(postings, i + 1, total, Some(i - 1))
    ELSE Scan(postings, i + 1, ScanAdd(total, postings[i]), auto)

\* A plausible slip: the balancing amount keeps the sign of the total.
AutoAmount_sameSign(total) == total

\* amount = -total
AutoAmount(total) == 0 - total

\* The second loop: the Posting objects, position = index in the input.
BuildPostings(txn, postings, sc) ==
    [i \in 1..Len(postings) |->
        [txn |-> txn,
         position |-> i - 1,
         account_id |-> postings[i].account_id,
         amount |-> IF Some(i - 1) = sc.auto
                    THEN Some(AutoAmount(sc.total))
                    ELSE postings[i].amount,
         currency |-> PostingCurrency(postings[i])]]

\* A plausible slip: any nonzero total is refused.
Unbalanced_exact(sc) == IsNone(sc.auto) /\ sc.total # 0

\* auto_balance_posting is None and abs(total) >= Decimal("0.001")
Unbalanced(sc) == IsNone(sc.auto) /\ Abs(sc.total) >= EPS

\* TransactionRepository.get_by_id with the eager loads, on a flushed view
Hydrate(v, h) ==
    [id |-> h.id, date |-> h.date,
     postings |-> {x \in v.postings : x.txn = h.id},
     tags |-> {x.tag : x \in {y \in v.tags : y.txn = h.id}},
     links |-> {x.link : x \in {y \in v.links : y.txn = h.id}}]

GetTxnById(v, id) ==
    IF \E h \in v.transactions : h.id = id
    THEN Some(Hydrate(v, CHOOSE h \in v.transactions : h.id = id))
    ELSE None

\* The create calls the model issues: call is [date, postings, tags, links].
\* Lines 259-268: the header is added and flushed, with whatever the
\* session still held pending.
CreateBegin(s, call) ==
    LET id == next.txn
        header == [id |-> id, date |-> call.date]
        d == InsertRow(delta[s], "transactions", header)
        r == [Res("transaction.create", "IntegrityError") EXCEPT !.txn = id]
    IN  /\ next.txn <= MaxTxns
        /\ Len(call.postings) <= MaxPostings
        /\ IF FlushOk(d, pending[s])
           THEN /\ delta' = [delta EXCEPT ![s] = Flushed(d, pending[s])]
                /\ pending' = [pending EXCEPT ![s] = EmptyPending]
                /\ pc' = [pc EXCEPT ![s] = "creating"]
                /\ cur' = [cur EXCEPT ![s] = Some([txn |-> id, call |-> call])]
                /\ hist' = hist @@ (id :> [by |-> s, call |-> call,
                                           status |-> "running"])
                /\ next' = [next EXCEPT !.txn = @ + 1]
                /\ UNCHANGED last
           ELSE /\ Leave(s, FlushFailure(r))
                /\ UNCHANGED <<cur, hist, next>>
        /\ UNCHANGED db

\* Lines 270-316 from a session with delta d and pending p.
CreateFinishOut(d, p, txn, call) ==
    LET sc == Scan(call.postings, 1, 0, None)
        r == [Res("transaction.create", "ok") EXCEPT !.txn = txn]
        p1 == [p EXCEPT !.postings = @ \o BuildPostings(txn, call.postings, sc)]
        p2 == [p1 EXCEPT
                 !.tags = @ \o [i \in 1..Len(call.tags) |->
                                   [txn |-> txn, tag |-> call.tags[i]]],
                 !.links = @ \o [i \in 1..Len(call.links) |->
                                    [txn |-> txn, link |-> call.links[i]]]]
        d2 == Flushed(d, p2)
    IN  IF sc.multi
        THEN Out("ValueError", d, p,
                 [r EXCEPT !.status = "ValueError", !.error = "multi"])
        ELSE IF Unbalanced(sc)
        THEN Out("ValueError", d, p1,
                 [r EXCEPT !.status = "ValueError", !.error = "unbalanced",
                           !.total = Some(sc.total)])
        ELSE IF ~FlushOk(d, p2)
        THEN FlushFailure([r EXCEPT !.status = "IntegrityError",
                                    !.error = "store"])
        ELSE Out("ok", d2, EmptyPending,
                 [r EXCEPT !.ret = GetTxnById(ViewOf(d2), txn)])

CreateFinish(s) ==
    /\ pc[s] = "creating"
    /\ LET c == Val(cur[s])
           out == CreateFinishOut(delta[s], pending[s], c.txn, c.call)
       IN  /\ Leave(s, out)
           /\ hist' = [hist EXCEPT ![c.txn].status =
                          IF out.status = "ok" THEN "ok" ELSE out.res.error]
    /\ cur' = [cur EXCEPT ![s] = None]
    /\ UNCHANGED <<db, next>>

\* TransactionRepository.list_by_date_range on a flushed view (the order of
\* the result is not modelled)
ListByDateRange(v, start_date, end_date) ==
    {Hydrate(v, h) : h \in {x \in v.transactions :
                                x.date >= start_date /\ x.date <= end_date}}

ListByDateRangeOut(d, p, start_date, end_date) ==
    LET r == Res("transaction.list_by_date_range", "ok")
        af == Autoflush(d, p)
    IN  IF ~af.ok
        THEN FlushFailure([r EXCEPT !.status = "IntegrityError",
                                    !.error = "store"])
        ELSE Out("ok", af.delta, af.pending,
                 [r EXCEPT !.found =
                     ListByDateRange(ViewOf(af.delta), start_date, end_date)])

QueryByDateRange(s, start_date, end_date) ==
    /\ Leave(s, ListByDateRangeOut(delta[s], pending[s], start_date, end_date))
    /\ UNCHANGED <<db, cur, hist, next>>

\* TransactionRepository.update_posting_account. transaction.postings has
\* no order_by, so the posting the loop meets first is the store's choice.
UpdatePostingAccountOut(d, p, transaction_id, old_account_id, new_account_id, pick) ==
    LET r == [Res("transaction.update_posting_account", "ok")
                 EXCEPT !.txn = transaction_id]
        af == Autoflush(d, p)
        t == GetTxnById(ViewOf(af.delta), transaction_id)
        upd == [pick EXCEPT !.account_id = new_account_id]
        d2 == UpdateRow(af.delta, "postings", pick, upd)
    IN  IF ~af.ok
        THEN FlushFailure([r EXCEPT !.status = "IntegrityError",
                                    !.error = "store"])
        ELSE IF IsNone(t)
        THEN Out("ok", af.delta, af.pending, r)
        ELSE IF pick \notin Val(t).postings
        THEN Out("ok", af.delta, af.pending, [r EXCEPT !.ret = t])
        ELSE IF ~\E a \in ViewOf(af.delta).accounts : a.id = new_account_id
        THEN FlushFailure([r EXCEPT !.status = "IntegrityError",
                                    !.error = "store"])
        ELSE Out("ok", d2, af.pending,
                 [r EXCEPT !.ret = GetTxnById(ViewOf(d2), transaction_id)])

\* the postings the loop may meet first: those on old_account_id, or a
\* placeholder when there is none
Picks(s, transaction_id, old_account_id) ==
    LET af == Autoflush(delta[s], pending[s])
        m == {x \in ViewOf(af.delta).postings :
                 x.txn = transaction_id /\ x.account_id = old_account_id}
    IN  IF m = {} THEN {[txn |-> 0, position |-> 0, account_id |-> 0,
                         amount |-> None, currency |-> "USD"]}
        ELSE m

UpdatePostingAccount(s, transaction_id, old_account_id, new_account_id) ==
    /\ \E pick \in Picks(s, transaction_id, old_account_id) :
          Leave(s, UpdatePostingAccountOut(delta[s], pending[s], transaction_id,
                                           old_account_id, new_account_id, pick))
    /\ UNCHANGED <<db, cur, hist, next>>

\* ------------------------------------------------------------ unit of work
\* Session.commit(): flush, then COMMIT; the caller goes on at k_ok, or at
\* k_fail when the flush is refused.
CommitTo(s, k_ok, k_fail) ==
    LET af == Autoflush(delta[s], pending[s])
    IN  /\ IF af.ok
           THEN /\ db' = [t \in Tables |->
                            (db[t] \ af.delta.gone[t]) \cup af.delta.ins[t]]
                /\ pc' = [pc EXCEPT ![s] = k_ok]
                /\ last' = [last EXCEPT ![s] = Res("commit", "ok")]
           ELSE /\ db' = db
                /\ pc' = [pc EXCEPT ![s] = k_fail]
                /\ last' = [last EXCEPT ![s] =
                              [Res("commit", "IntegrityError") EXCEPT
                                  !.error = "store"]]
        /\ delta' = [delta EXCEPT ![s] = EmptyDelta]
        /\ pending' = [pending EXCEPT ![s] = EmptyPending]
        /\ UNCHANGED <<cur, hist, next>>

\* Session.rollback(); the caller goes on at k.
RollbackTo(s, k) ==
    /\ delta' = [delta EXCEPT ![s] = EmptyDelta]
    /\ pending' = [pending EXCEPT ![s] = EmptyPending]
    /\ pc' = [pc EXCEPT ![s] = k]
    /\ last' = [last EXCEPT ![s] = Res("rollback", "ok")]
    /\ UNCHANGED <<db, cur, hist, next>>

\* a caller's own session.commit() and session.rollback()
Commit(s) == CommitTo(s, "idle", "inactive")
Rollback(s) == RollbackTo(s, "idle")

\* session_context: a new session is opened and handed to the body
Enter(s) ==
    /\ pc[s] = "out"
    /\ pc' = [pc EXCEPT ![s] = "idle"]
    /\ UNCHANGED <<db, delta, pending, cur, last, hist, next>>

\* session_context, the body ended normally: commit (a commit that fails
\* raises inside the try, so the except branch rolls back), then close
ExitNormal(s) ==
    /\ pc[s] = "idle"
    /\ CommitTo(s, "out", "out")

\* A plausible slip: the except branch commits what the body wrote.
ExitOnException_commits(s) ==
    /\ pc[s] \in {"raised", "inactive"}
    /\ CommitTo(s, "out", "out")

\* session_context, the body raised: rollback, re-raise, close
ExitOnException(s) ==
    /\ pc[s] \in {"raised", "inactive"}
    /\ RollbackTo(s, "out")

\* ------------------------------------------------------------------ inputs
P(a, amt, c) == [account_id |-> a, amount |-> amt, currency |-> c]
Call(date, postings, tags, links) ==
    [date |-> date, postings |-> postings, tags |-> tags, links |-> links]

AccountIds == 1..MaxAccounts
TxnIds == 1..MaxTxns

\* the (open_date, currency, description) the account calls pass
AccountArgs ==
    { [open_date |-> 1, currency |-> "USD", description |-> None],
      [open_date |-> 2, currency |-> "EUR", description |-> Some("d")] }

\* the create calls of the ledger specifications; account MaxAccounts + 1
\* does not exist
Calls ==
    { Call(1, <<P(1, Some(100), None), P(2, Some(-100), None)>>, <<"a">>, <<"k">>),
      Call(1, <<P(1, Some(100), None), P(2, Some(-100), Some("EUR"))>>, <<>>, <<>>),
      Call(2, <<P(1, Some(100), None), P(2, None, None)>>, <<>>, <<>>),
      Call(2, <<P(1, None, None)>>, <<>>, <<>>),
      Call(1, <<P(1, Some(100), None), P(2, None, None), P(1, None, None)>>,
           <<>>, <<>>),
      Call(1, <<P(1, Some(100), None), P(2, Some(-90), None)>>, <<>>, <<>>),
      Call(2, <<P(1, Some(100), None), P(2, Some(-91), None)>>, <<>>, <<>>),
      Call(2, <<P(1, Some(100), None), P(1, Some(-100), None)>>,
           <<"a", "a">>, <<>>),
      Call(1, <<P(1, Some(100), None), P(MaxAccounts + 1, Some(-100), None)>>,
           <<>>, <<"k">>),
      Call(2, <<P(1, Some(100), None), P(MaxAccounts + 1, Some(-50), None)>>,
           <<>>, <<>>) }

\* the one create call of the account-directory specification
DirCalls ==
    { Call(1, <<P(1, Some(100), None), P(2, None, None)>>, <<>>, <<>>) }

\* ----------------------------------------------------------- specifications
\* A caller that holds one session for a series of calls, catches what a
\* call raises and goes on (the tests' session fixture, conftest.py).
Ready(s) == pc[s] \in {"idle", "raised"}

Start(accounts, nextAcc, pc0) ==
    /\ db = [EmptyTables EXCEPT !.accounts = accounts]
    /\ delta = [s \in Sessions |-> EmptyDelta]
    /\ pending = [s \in Sessions |-> EmptyPending]
    /\ pc = pc0
    /\ cur = [s \in Sessions |-> None]
    /\ last = [s \in Sessions |-> NoResult]
    /\ hist = <<>>
    /\ next = [acc |-> nextAcc, txn |-> 1, bal |-> 1, rate |-> 1]

\* The account directory, from the empty store, with one caller.
Init == Start({}, 1, [s \in Sessions |-> IF s = "s1" THEN "idle" ELSE "out"])

Next ==
    \E s \in {"s1"} :
        \/ /\ Ready(s)
           /\ \E name \in Names, a \in AccountArgs :
                 AccountCreate(s, name, a.open_date, a.currency, a.description)
        \/ /\ Ready(s)
           /\ \E name \in Names, a \in AccountArgs :
                 GetOrCreate(s, name, a.open_date, a.currency, a.description)
        \/ /\ Ready(s)
           /\ \E id \in AccountIds : CloseAccount(s, id, 2)
        \/ /\ Ready(s)
           /\ hist = <<>>
           /\ \E call \in DirCalls : CreateBegin(s, call)
        \/ CreateFinish(s)
        \/ /\ Ready(s)
           /\ \E old \in AccountIds, new \in AccountIds :
                 UpdatePostingAccount(s, 1, old, new)
        \/ /\ Ready(s)
           /\ Commit(s)
        \/ /\ pc[s] \in {"idle", "raised", "inactive"}
           /\ Rollback(s)

Spec == Init /\ [][Next]_vars

\* The accounts the ledger specifications start from, created and committed.
SampleAccounts ==
    { NewAccount(1, <<"Assets", SEP, "Bank">>, 1, "USD", None),
      NewAccount(2, <<"Expenses", SEP, "Food">>, 1, "USD", None) }

\* The ledger, with one caller that catches and goes on.
InitLedger ==
    Start(SampleAccounts, 3, [s \in Sessions |-> IF s = "s1" THEN "idle" ELSE "out"])

NextLedger ==
    \E s \in {"s1"} :
        \/ /\ Ready(s)
           /\ \E call \in Calls : CreateBegin(s, call)
        \/ CreateFinish(s)
        \/ /\ Ready(s)
           /\ \E t \in TxnIds, old \in AccountIds, new \in AccountIds :
                 UpdatePostingAccount(s, t, old, new)
        \/ /\ Ready(s)
           /\ \E d1 \in Dates, d2 \in Dates : QueryByDateRange(s, d1, d2)
        \/ /\ Ready(s)
           /\ Commit(s)
        \/ /\ pc[s] \in {"idle", "raised", "inactive"}
           /\ Rollback(s)

SpecLedger == InitLedger /\ [][NextLedger]_vars

\* TransactionRepository.create alone, over every posting list of up to
\* MaxPostings postings drawn from PostingInputs.
WideAmounts == {-10, -1, 9, 10}
PostingInputs ==
    {P(a, amt, c) : a \in {x.id : x \in SampleAccounts},
                    amt \in {None} \cup {Some(x) : x \in WideAmounts},
                    c \in {None, Some("EUR")}}
WideCalls ==
    {Call(1, ps, <<>>, <<>>) :
        ps \in UNION {[1..n -> PostingInputs] : n \in 0..MaxPostings}}

NextCreate ==
    \E s \in {"s1"} :
        \/ /\ pc[s] = "idle"
           /\ hist = <<>>
           /\ \E call \in WideCalls : CreateBegin(s, call)
        \/ CreateFinish(s)

SpecCreate == InitLedger /\ [][NextCreate]_vars

\* Units of work: every session runs its calls inside session_context and
\* lets what they raise reach it.
InitUow == Start(SampleAccounts, 3, [s \in Sessions |-> "out"])

NextUow ==
    \E s \in Sessions :
        \/ Enter(s)
        \/ /\ pc[s] = "idle"
           /\ \E call \in Calls : CreateBegin(s, call)
        \/ CreateFinish(s)
        \/ ExitNormal(s)
        \/ ExitOnException(s)

SpecUow == InitUow /\ [][NextUow]_vars

\* ================================================================ claims
\* what the claims say about a posting list, stated without the loops above
Unset(ps) == {i \in 1..Len(ps) : IsNone(ps[i].amount)}

RECURSIVE SumOver(_, _)
\* the sum of the present amounts of the postings at the indices in I
SumOver(ps, I) ==
    IF I = {} THEN 0
    ELSE LET i == CHOOSE j \in I : TRUE
         IN  Val(ps[i].amount) + SumOver(ps, I \ {i})

SumPresent(ps) == SumOver(ps, (1..Len(ps)) \ Unset(ps))

Done(t) == hist[t].status # "running"

\* the create call of transaction t has just returned to its caller
JustReturned(t) ==
    /\ last[hist[t].by].op = "transaction.create"
    /\ last[hist[t].by].txn = t
    /\ last[hist[t].by].status = "ok"

\* rows is one posting per input posting: position, account, currency and
\* every present amount as given
OnePerInput(rows, t, ps) ==
    /\ Cardinality(rows) = Len(ps)
    /\ \A i \in 1..Len(ps) :
          \E x \in rows :
              /\ x.txn = t
              /\ x.position = i - 1
              /\ x.account_id = ps[i].account_id
              /\ x.currency = (IF ps[i].currency = None THEN "USD"
                               ELSE ps[i].currency[1])
              /\ ~IsNone(x.amount)
              /\ i \notin Unset(ps) => x.amount = ps[i].amount

PostingsOf(v, t) == {x \in v.postings : x.txn = t}

\* every posting of the call names an account its session can see
KnownAccounts(t) ==
    \A i \in 1..Len(hist[t].call.postings) :
        \E a \in View(hist[t].by).accounts :
            a.id = hist[t].call.postings[i].account_id

\* C1: a posting list with no unset amount whose amounts sum to less than
\* 0.001 in absolute value is accepted, one posting is stored per input
\* posting, and the returned transaction is balanced.
C1_BalancedAccepted ==
    \A t \in DOMAIN hist :
        LET ps == hist[t].call.postings
            r == last[hist[t].by]
        IN  (/\ Done(t)
             /\ KnownAccounts(t)
             /\ Unset(ps) = {}
             /\ Abs(SumPresent(ps)) < EPS) =>
               /\ hist[t].status = "ok"
               /\ JustReturned(t) =>
                     /\ ~IsNone(r.ret)
                     /\ OnePerInput(Val(r.ret).postings, t, ps)
                     /\ OnePerInput(PostingsOf(View(hist[t].by), t), t, ps)
                     /\ Abs(SumAmounts(Val(r.ret).postings)) < EPS

C1_Witness ==
    \E t \in DOMAIN hist :
        /\ JustReturned(t)
        /\ Len(hist[t].call.postings) = 3
        /\ Unset(hist[t].call.postings) = {}
        /\ SumPresent(hist[t].call.postings) = 9

\* C2: with exactly one unset amount the call is accepted, the unset posting
\* is stored with minus the sum of the other amounts, and the returned
\* transaction is balanced.
C2_AutoBalance ==
    \A t \in DOMAIN hist :
        LET ps == hist[t].call.postings
            r == last[hist[t].by]
        IN  (Done(t) /\ KnownAccounts(t) /\ Cardinality(Unset(ps)) = 1) =>
               /\ hist[t].status = "ok"
               /\ JustReturned(t) =>
                     /\ ~IsNone(r.ret)
                     /\ OnePerInput(Val(r.ret).postings, t, ps)
                     /\ \A i \in Unset(ps) :
                           \A x \in Val(r.ret).postings
                                     \cup PostingsOf(View(hist[t].by), t) :
                               x.position = i - 1 =>
                                  x.amount = Some(0 - SumPresent(ps))
                     /\ Abs(SumAmounts(Val(r.ret).postings)) < EPS

C2_Witness ==
    \E t \in DOMAIN hist :
        /\ JustReturned(t)
        /\ Len(hist[t].call.postings) = 3
        /\ Cardinality(Unset(hist[t].call.postings)) = 1
        /\ SumPresent(hist[t].call.postings) = 19
        /\ \E x \in Val(last[hist[t].by].ret).postings : x.amount = Some(-19)

\* C6: in every accepted transaction the stored postings of each currency
\* sum to less than 0.001 in absolute value.
C6_PerCurrencyBalanced ==
    \A t \in DOMAIN hist :
        hist[t].status = "ok" =>
            \A s \in Sessions : \A c \in Currencies :
                Abs(SumAmounts({x \in PostingsOf(View(s), t) : x.currency = c}))
                    < EPS

\* C7: the balance check and the balancing amount use the one sum of all
\* present amounts, whatever their currencies: a list with no unset amount
\* is accepted exactly when that sum is below 0.001 in absolute value, and
\* an unset posting receives minus that sum.
C7_OneSumAcrossCurrencies ==
    \A t \in DOMAIN hist :
        LET ps == hist[t].call.postings
        IN  (Done(t) /\ KnownAccounts(t)) =>
               /\ Unset(ps) = {} =>
                     (hist[t].status = "ok" <=> Abs(SumPresent(ps)) < EPS)
               /\ Unset(ps) = {} /\ hist[t].status # "ok" =>
                     /\ hist[t].status = "unbalanced"
                     /\ last[hist[t].by].total = Some(SumPresent(ps))
               /\ (Cardinality(Unset(ps)) = 1 /\ JustReturned(t)) =>
                     \A i \in Unset(ps) :
                        \A x \in PostingsOf(View(hist[t].by), t) :
                            x.position = i - 1 =>
                               x.amount = Some(0 - SumPresent(ps))

C7_Witness ==
    \E t \in DOMAIN hist :
        LET ps == hist[t].call.postings
        IN  /\ JustReturned(t)
            /\ Len(ps) = 2
            /\ Unset(ps) = {}
            /\ ps[1].amount = Some(10) /\ ps[1].currency = None
            /\ ps[2].amount = Some(-10) /\ ps[2].currency = Some("EUR")

\* some row of transaction t is in the view v: its header, a posting, a tag
\* or a link
Visible(v, t) ==
    \/ \E h \in v.transactions : h.id = t
    \/ \E x \in v.postings \cup v.tags \cup v.links : x.txn = t

\* C3: after a call that failed because two or more amounts were unset, a
\* re-query (get_by_id, list_by_date_range) finds no header and no posting
\* of that call.
C3_MultiLeavesNothing ==
    \A t \in DOMAIN hist :
        hist[t].status = "multi" =>
            /\ ~Visible(ViewOf(EmptyDelta), t)
            /\ \A s \in Sessions :
                  /\ IsNone(GetTxnById(View(s), t))
                  /\ last[s].op = "transaction.list_by_date_range" =>
                        \A x \in last[s].found : x.id # t

\* C4: after a call that failed because its amounts sum to 0.001 or more in
\* absolute value, neither its header nor any of its postings is stored, or
\* later written by the same unit of work.
C4_UnbalancedLeavesNothing ==
    \A t \in DOMAIN hist :
        hist[t].status = "unbalanced" =>
            \A s \in Sessions :
                /\ ~Visible(View(s), t)
                /\ ~Visible(ViewOf(EmptyDelta), t)
                /\ \A i \in 1..Len(pending[s].postings) :
                      pending[s].postings[i].txn # t

\* transaction t is in the view v with everything its call asked for
Whole(v, t) ==
    LET c == hist[t].call
    IN  /\ \E h \in v.transactions : h.id = t /\ h.date = c.date
        /\ OnePerInput(PostingsOf(v, t), t, c.postings)
        /\ {x.tag : x \in {y \in v.tags : y.txn = t}} = Range(c.tags)
        /\ {x.link : x \in {y \in v.links : y.txn = t}} = Range(c.links)

\* C5: under session_context, in every interleaving, a reader other than
\* the creating unit of work sees of a create call either nothing or the
\* whole transaction, and sees nothing at all of a call that failed.
C5_AtomicToReaders ==
    \A t \in DOMAIN hist :
        \A v \in {ViewOf(EmptyDelta)}
                  \cup {View(r) : r \in Sessions \ {hist[t].by}} :
            Visible(v, t) => (hist[t].status = "ok" /\ Whole(v, t))

C5_Witness ==
    \E t \in DOMAIN hist, u \in DOMAIN hist :
        /\ hist[t].status = "ok"
        /\ hist[t].call.tags # <<>>
        /\ hist[u].status \in {"multi", "unbalanced", "store"}
        /\ hist[u].by # hist[t].by
        /\ pc[hist[u].by] = "out"
        /\ Visible(View(hist[u].by), t)
        /\ ~Visible(View(hist[t].by), u)

\* every account row there is: committed, or written by an open transaction
AllAccountRows == db.accounts \cup UNION {delta[s].ins.accounts : s \in Sessions}

\* seg is the part of name before its first colon (all of it without one)
IsFirstSegment(seg, name) ==
    \E k \in 0..Len(name) :
        /\ seg = SubSeq(name, 1, k)
        /\ \A i \in 1..k : name[i] # SEP
        /\ k = Len(name) \/ name[k + 1] = SEP

AccountWrites == {"account.create", "account.get_or_create"}

C8_Stored ==
    /\ \A a \in AllAccountRows :
          /\ IsFirstSegment(a.account_type, a.name)
          /\ a.account_type \in AccountTypeValues
    /\ \A s \in Sessions :
          (/\ last[s].op \in AccountWrites
           /\ \A seg \in AccountTypeValues : ~IsFirstSegment(seg, last[s].name)) =>
              (last[s].status = "ValueError" /\ IsNone(last[s].acct))

C8_Step ==
    /\ \A a \in AllAccountRows : \A b \in AllAccountRows' :
          a.id = b.id => (a.name = b.name /\ a.account_type = b.account_type)
    /\ \A s \in Sessions :
          (/\ last'[s] # last[s]
           /\ last'[s].op \in AccountWrites
           /\ last'[s].status = "ValueError") =>
              AllAccountRows' = AllAccountRows

\* C8: every stored account's type is the first colon-delimited segment of
\* its name and one of the five account types; a create of a name with any
\* other first segment raises the invalid-type error and adds no account;
\* no step changes the name or the type of a stored account.
C8_TypeFromName == [](C8_Stored) /\ [][C8_Step]_vars

C8_Witness ==
    /\ last["s1"].op = "account.create"
    /\ last["s1"].status = "ValueError"
    /\ last["s1"].name = <<"Assets", "x">>
    /\ \E a \in View("s1").accounts : ~IsNone(a.close_date)
    /\ \E a \in db.accounts : IsFirstSegment(a.account_type, a.name)
    /\ \E x \in View("s1").postings : x.txn \in DOMAIN hist
          /\ x.account_id # hist[x.txn].call.postings[x.position + 1].account_id

\* C9: account names are pairwise distinct, and a create of a name that is
\* already stored fails, leaves the accounts of that name and every other
\* account as they were, and adds none.
C9_DuplicateLeavesExisting ==
    [][\A s \in Sessions :
          /\ \A a \in View(s).accounts : \A b \in View(s).accounts :
                a.name = b.name => a = b
          /\ (/\ last'[s] # last[s]
              /\ last'[s].op = "account.create"
              /\ \E a \in View(s).accounts : a.name = last'[s].name) =>
                 /\ last'[s].status = "IntegrityError"
                 /\ View(s)'.accounts = View(s).accounts]_vars

\* C10: get_or_create of a name that is not stored creates the account and
\* reports was_created; of a name that is stored it returns that account
\* with was_created false, adds no account and changes no stored account,
\* whatever currency, open date and description it is passed.
C10_GetOrCreateIdempotent ==
    [][\A s \in Sessions :
          LET r == last'[s]
              before == View(s).accounts
              after == View(s)'.accounts
          IN  (/\ r # last[s]
               /\ r.op = "account.get_or_create"
               /\ r.status = "ok") =>
                 IF \E a \in before : a.name = r.name
                 THEN /\ \E a \in before : a.name = r.name /\ r.acct = Some(a)
                      /\ ~r.created
                      /\ after = before
                 ELSE /\ r.created
                      /\ ~IsNone(r.acct)
                      /\ Val(r.acct).name = r.name
                      /\ Val(r.acct).currency = Val(r.args).currency
                      /\ \A a \in before : a.id # Val(r.acct).id
                      /\ after = before \cup {Val(r.acct)}]_vars

C10_Witness ==
    LET r == last["s1"]
    IN  /\ r.op = "account.get_or_create"
        /\ r.status = "ok"
        /\ ~r.created
        /\ Val(r.acct) \in View("s1").accounts
        /\ Val(r.args).currency # Val(r.acct).currency
        /\ Val(r.args).open_date # Val(r.acct).open_date
        /\ Val(r.args).description # Val(r.acct).description

\* ------------------------------------------- get_or_create, two sessions
\* Between the lookup of get_or_create (get_by_name) and its create, other
\* sessions run. With one session the two halves are GetOrCreate above.
GetOrCreateLookup(s, name, open_date, currency, description) ==
    LET r == [Res("account.get_or_create", "ok") EXCEPT
                 !.name = name,
                 !.args = Some([open_date |-> open_date, currency |-> currency,
                                description |-> description])]
        af == Autoflush(delta[s], pending[s])
        found == GetByName(ViewOf(af.delta), name)
    IN  /\ pc[s] = "idle"
        /\ IF ~af.ok
           THEN /\ Leave(s, FlushFailure([r EXCEPT !.status = "IntegrityError"]))
                /\ cur' = cur
           ELSE IF ~IsNone(found)
           THEN /\ Leave(s, Out("ok", af.delta, af.pending,
                                [r EXCEPT !.acct = found]))
                /\ cur' = cur
           ELSE /\ delta' = [delta EXCEPT ![s] = af.delta]
                /\ pending' = [pending EXCEPT ![s] = af.pending]
                /\ pc' = [pc EXCEPT ![s] = "registering"]
                /\ cur' = [cur EXCEPT ![s] = Some(r)]
                /\ last' = last
        /\ UNCHANGED <<db, hist, next>>

\* self.create(name, ...) of get_or_create: the INSERT waits while another
\* open transaction holds the name, and is refused once the name is stored.
GetOrCreateInsert(s) ==
    LET r == Val(cur[s])
        a == Val(r.args)
        made == AccountCreateOut(delta[s], pending[s], r.name, a.open_date,
                                 a.currency, a.description)
        out == [made EXCEPT !.res.op = r.op, !.res.args = r.args]
    IN  /\ pc[s] = "registering"
        /\ ~NameLockedByOther(s, r.name)
        /\ TakeAccountId(out)
        /\ Leave(s, out)
        /\ cur' = [cur EXCEPT ![s] = None]
        /\ UNCHANGED <<db, hist>>

RaceNames == {<<"Assets", SEP, "Bank">>, <<"Expenses", SEP, "Food">>}

\* Units of work under session_context that call get_or_create.
InitRace == Start({}, 1, [s \in Sessions |-> "out"])

NextRace ==
    \E s \in Sessions :
        \/ Enter(s)
        \/ \E name \in RaceNames, a \in AccountArgs :
              GetOrCreateLookup(s, name, a.open_date, a.currency, a.description)
        \/ GetOrCreateInsert(s)
        \/ ExitNormal(s)
        \/ ExitOnException(s)

SpecRace == InitRace /\ [][NextRace]_vars

\* C11: in every interleaving of get_or_create calls of concurrent sessions
\* every call returns an account, none fails on the unique name, and the
\* name is stored once.
C11_GetOrCreateNeverFails ==
    \A s \in Sessions :
        last[s].op = "account.get_or_create" =>
            /\ last[s].status = "ok"
            /\ ~IsNone(last[s].acct)
            /\ Cardinality({a \in View(s).accounts : a.name = last[s].name}) = 1

\* --------------------------------------------------------------- balances
\* A balance fact; its natural key is (account_id, date, currency).
NewBalance(id, account_id, date, amount, currency) ==
    [id |-> id, account_id |-> account_id, date |-> date, amount |-> amount,
     currency |-> currency, is_verified |-> TRUE]

BalanceKey(b) == <<b.account_id, b.date, b.currency>>

\* A slip: the table has no unique constraint on the natural key.
BalanceKeyTaken_unchecked(v, key) == FALSE

\* uq_balance_account_date_currency: the store refuses a second row of a key
BalanceKeyTaken(v, key) == \E b \in v.balances : BalanceKey(b) = key

\* an INSERT of a key that another open transaction has inserted waits
BalanceKeyLockedByOther(s, key) ==
    \E t \in Sessions \ {s} : \E b \in delta[t].ins.balances : BalanceKey(b) = key

\* an UPDATE of a row that another open transaction has written waits
RowLockedByOther(s, t, id) ==
    \E o \in Sessions \ {s} :
        \E x \in delta[o].ins[t] \cup delta[o].gone[t] : x.id = id

\* BalanceRepository.create_or_update, the SELECT of the existing row
BalanceUpsertLookup(s, account_id, date, amount, currency) ==
    LET r == [Res("balance.create_or_update", "ok") EXCEPT
                 !.args = Some([account_id |-> account_id, date |-> date,
                                amount |-> amount, currency |-> currency])]
        af == Autoflush(delta[s], pending[s])
        m == {b \in ViewOf(af.delta).balances :
                 BalanceKey(b) = <<account_id, date, currency>>}
    IN  IF ~af.ok
        THEN /\ Leave(s, FlushFailure([r EXCEPT !.status = "IntegrityError"]))
             /\ UNCHANGED <<db, cur, hist, next>>
        ELSE IF Cardinality(m) > 1
        THEN /\ Leave(s, Out("MultipleResultsFound", af.delta, af.pending,
                             [r EXCEPT !.status = "MultipleResultsFound"]))
             /\ UNCHANGED <<db, cur, hist, next>>
        ELSE /\ delta' = [delta EXCEPT ![s] = af.delta]
             /\ pending' = [pending EXCEPT ![s] = af.pending]
             /\ pc' = [pc EXCEPT ![s] = "upserting_balance"]
             /\ cur' = [cur EXCEPT ![s] =
                          Some([res |-> r,
                                existing |-> IF m = {} THEN None
                                             ELSE Some((CHOOSE b \in m : TRUE).id)])]
             /\ UNCHANGED <<db, last, hist, next>>

\* A slip: the existing row is left with its old amount.
BalanceAssign_keepsOld(old, amount) == old

\* balance.amount = amount
BalanceAssign(old, amount) == [old EXCEPT !.amount = amount]

\* BalanceRepository.create_or_update from "if balance:" to the return:
\* the amount is assigned, or a new Balance is added, and the session flushed
BalanceUpsertWrite(s) ==
    LET c == Val(cur[s])
        a == Val(c.res.args)
        v == View(s)
        key == <<a.account_id, a.date, a.currency>>
        now == {b \in v.balances : b.id = Val(c.existing)}
        old == CHOOSE b \in now : TRUE
        upd == BalanceAssign(old, a.amount)
        new == NewBalance(next.bal, a.account_id, a.date, a.amount, a.currency)
    IN  /\ pc[s] = "upserting_balance"
        /\ cur' = [cur EXCEPT ![s] = None]
        /\ IF ~IsNone(c.existing)
           THEN /\ ~RowLockedByOther(s, "balances", Val(c.existing))
                /\ IF now = {}
                   THEN Leave(s, FlushFailure([c.res EXCEPT
                                                  !.status = "StaleDataError"]))
                   ELSE Leave(s, Out("ok", UpdateRow(delta[s], "balances", old, upd),
                                     pending[s], [c.res EXCEPT !.ret = Some(upd)]))
                /\ UNCHANGED <<db, hist, next>>
           ELSE /\ ~BalanceKeyLockedByOther(s, key)
                /\ next.bal <= MaxBalances
                /\ IF \/ BalanceKeyTaken(v, key)
                      \/ ~\E x \in v.accounts : x.id = a.account_id
                   THEN /\ Leave(s, FlushFailure([c.res EXCEPT
                                                     !.status = "IntegrityError"]))
                        /\ next' = next
                   ELSE /\ Leave(s, Out("ok", InsertRow(delta[s], "balances", new),
                                        pending[s],
                                        [c.res EXCEPT !.ret = Some(new),
                                                      !.created = TRUE]))
                        /\ next' = [next EXCEPT !.bal = @ + 1]
                /\ UNCHANGED <<db, hist>>

\* ------------------------------------------------------------------ rates
\* An exchange-rate fact; its natural key is (date, from_currency,
\* to_currency).
NewRate(id, date, from_currency, to_currency, rate, source) ==
    [id |-> id, date |-> date, from_currency |-> from_currency,
     to_currency |-> to_currency, rate |-> rate, source |-> source]

RateKey(x) == <<x.date, x.from_currency, x.to_currency>>

\* one fact per (date, from_currency, to_currency): the store refuses a
\* second row of a key
RateKeyTaken(v, key) == \E x \in v.rates : RateKey(x) = key

RateKeyLockedByOther(s, key) ==
    \E t \in Sessions \ {s} : \E x \in delta[t].ins.rates : RateKey(x) = key

\* ExchangeRateRepository.create_or_update, the SELECT of the existing row
RateUpsertLookup(s, date, from_currency, to_currency, rate, source) ==
    LET r == [Res("rate.create_or_update", "ok") EXCEPT
                 !.args = Some([date |-> date, from_currency |-> from_currency,
                                to_currency |-> to_currency, rate |-> rate,
                                source |-> source])]
        af == Autoflush(delta[s], pending[s])
        m == {x \in ViewOf(af.delta).rates :
                 RateKey(x) = <<date, from_currency, to_currency>>}
    IN  IF ~af.ok
        THEN /\ Leave(s, FlushFailure([r EXCEPT !.status = "IntegrityError"]))
             /\ UNCHANGED <<db, cur, hist, next>>
        ELSE IF Cardinality(m) > 1
        THEN /\ Leave(s, Out("MultipleResultsFound", af.delta, af.pending,
                             [r EXCEPT !.status = "MultipleResultsFound"]))
             /\ UNCHANGED <<db, cur, hist, next>>
        ELSE /\ delta' = [delta EXCEPT ![s] = af.delta]
             /\ pending' = [pending EXCEPT ![s] = af.pending]
             /\ pc' = [pc EXCEPT ![s] = "upserting_rate"]
             /\ cur' = [cur EXCEPT ![s] =
                          Some([res |-> r,
                                existing |-> IF m = {} THEN None
                                             ELSE Some((CHOOSE x \in m : TRUE).id)])]
             /\ UNCHANGED <<db, last, hist, next>>

\* exchange_rate.rate = rate; if source: exchange_rate.source = source
RateAssign(old, rate, source) ==
    [old EXCEPT !.rate = rate,
                !.source = IF IsNone(source) THEN @ ELSE source]

\* ExchangeRateRepository.create_or_update from "if exchange_rate:" on
RateUpsertWrite(s) ==
    LET c == Val(cur[s])
        a == Val(c.res.args)
        v == View(s)
        key == <<a.date, a.from_currency, a.to_currency>>
        now == {x \in v.rates : x.id = Val(c.existing)}
        old == CHOOSE x \in now : TRUE
        upd == RateAssign(old, a.rate, a.source)
        new == NewRate(next.rate, a.date, a.from_currency, a.to_currency,
                       a.rate, a.source)
    IN  /\ pc[s] = "upserting_rate"
        /\ cur' = [cur EXCEPT ![s] = None]
        /\ IF ~IsNone(c.existing)
           THEN /\ ~RowLockedByOther(s, "rates", Val(c.existing))
                /\ IF now = {}
                   THEN Leave(s, FlushFailure([c.res EXCEPT
                                                  !.status = "StaleDataError"]))
                   ELSE Leave(s, Out("ok", UpdateRow(delta[s], "rates", old, upd),
                                     pending[s], [c.res EXCEPT !.ret = Some(upd)]))
                /\ UNCHANGED <<db, hist, next>>
           ELSE /\ ~RateKeyLockedByOther(s, key)
                /\ next.rate <= MaxRates
                /\ IF RateKeyTaken(v, key)
                   THEN /\ Leave(s, FlushFailure([c.res EXCEPT
                                                     !.status = "IntegrityError"]))
                        /\ next' = next
                   ELSE /\ Leave(s, Out("ok", InsertRow(delta[s], "rates", new),
                                        pending[s],
                                        [c.res EXCEPT !.ret = Some(new),
                                                      !.created = TRUE]))
                        /\ next' = [next EXCEPT !.rate = @ + 1]
                /\ UNCHANGED <<db, hist>>

\* ---------------------------------------------------- queries on the facts
Max(S) == CHOOSE x \in S : \A y \in S : y <= x

\* A slip: the latest date is taken over all facts, the limit applied after.
LatestDates_unfiltered(v, as_of_date) ==
    {<<b.account_id, b.currency,
       Max({c.date : c \in {c \in v.balances :
                               /\ c.account_id = b.account_id
                               /\ c.currency = b.currency}})>> :
        b \in {x \in v.balances : x.date <= as_of_date}}

\* the subquery of get_latest_balances: (account_id, currency, max(date))
\* over the facts dated on or before as_of_date, grouped by the pair
LatestDates(v, as_of_date) ==
    LET upto == {b \in v.balances : b.date <= as_of_date}
    IN  {<<b.account_id, b.currency,
           Max({c.date : c \in {c \in upto : /\ c.account_id = b.account_id
                                             /\ c.currency = b.currency}})>> :
            b \in upto}

\* BalanceRepository.get_latest_balances: the facts that join the subquery
GetLatestBalances(v, as_of_date) ==
    {b \in v.balances :
        <<b.account_id, b.currency, b.date>> \in LatestDates(v, as_of_date)}

QueryLatestBalances(s, as_of_date) ==
    LET r == [Res("balance.get_latest_balances", "ok") EXCEPT
                 !.args = Some([as_of_date |-> as_of_date])]
        af == Autoflush(delta[s], pending[s])
    IN  /\ Leave(s, IF ~af.ok
                    THEN FlushFailure([r EXCEPT !.status = "IntegrityError"])
                    ELSE Out("ok", af.delta, af.pending,
                             [r EXCEPT !.found =
                                 GetLatestBalances(ViewOf(af.delta), as_of_date)]))
        /\ UNCHANGED <<db, cur, hist, next>>

\* A slip: when the pair has no rate, the reverse pair's rate is returned.
GetRate_eitherDirection(v, from_currency, to_currency, as_of_date) ==
    LET m == {x \in v.rates :
                 /\ {x.from_currency, x.to_currency} = {from_currency, to_currency}
                 /\ x.date <= as_of_date}
    IN  IF m = {} THEN None
        ELSE Some((CHOOSE x \in m : x.date = Max({y.date : y \in m})).rate)

\* ExchangeRateRepository.get_rate: order_by(date.desc()).limit(1)
GetRate(v, from_currency, to_currency, as_of_date) ==
    LET m == {x \in v.rates :
                 /\ x.from_currency = from_currency
                 /\ x.to_currency = to_currency
                 /\ x.date <= as_of_date}
    IN  IF m = {} THEN None
        ELSE Some((CHOOSE x \in m : x.date = Max({y.date : y \in m})).rate)

QueryRate(s, from_currency, to_currency, as_of_date) ==
    LET r == [Res("rate.get_rate", "ok") EXCEPT
                 !.args = Some([from_currency |-> from_currency,
                                to_currency |-> to_currency,
                                as_of_date |-> as_of_date])]
        af == Autoflush(delta[s], pending[s])
    IN  /\ Leave(s, IF ~af.ok
                    THEN FlushFailure([r EXCEPT !.status = "IntegrityError"])
                    ELSE Out("ok", af.delta, af.pending,
                             [r EXCEPT !.ret =
                                 GetRate(ViewOf(af.delta), from_currency,
                                         to_currency, as_of_date)]))
        /\ UNCHANGED <<db, cur, hist, next>>

\* ------------------------------------------------------ net-worth summary
RECURSIVE SumFacts(_)
\* += balance.amount over a set of balance facts
SumFacts(bs) ==
    IF bs = {} THEN 0
    ELSE LET b == CHOOSE x \in bs : TRUE
         IN  b.amount + SumFacts(bs \ {b})

\* the code points of a currency code, as Python compares strings
CodePoints(c) ==
    CASE c = "USD" -> <<85, 83, 68>>
      [] c = "EUR" -> <<69, 85, 82>>

RECURSIVE SeqLess(_, _)
SeqLess(a, b) ==
    IF b = <<>> THEN FALSE
    ELSE IF a = <<>> THEN TRUE
    ELSE IF a[1] # b[1] THEN a[1] < b[1]
    ELSE SeqLess(Tail(a), Tail(b))

RECURSIVE SortByCurrency(_)
\* summaries.sort(key=lambda x: x.currency)
SortByCurrency(S) ==
    IF S = {} THEN <<>>
    ELSE LET m == CHOOSE x \in S :
                     \A y \in S \ {x} :
                         SeqLess(CodePoints(x.currency), CodePoints(y.currency))
         IN  <<m>> \o SortByCurrency(S \ {m})

\* A slip: liabilities are added to the assets.
NetWorth_sum(total_assets, total_liabilities) == total_assets + total_liabilities

\* net_worth=totals["total_assets"] - totals["total_liabilities"]
NetWorth(total_assets, total_liabilities) == total_assets - total_liabilities

\* get_networth_summary: by_currency of the response
NetWorthSummary(v, as_of_date) ==
    LET balances == GetLatestBalances(v, as_of_date)
        TypeOf(b) == (CHOOSE a \in v.accounts : a.id = b.account_id).account_type
        Total(c, type) ==
            SumFacts({b \in balances : b.currency = c /\ TypeOf(b) = type})
    IN  SortByCurrency(
            {[currency |-> c,
              total_assets |-> Total(c, <<"Assets">>),
              total_liabilities |-> Total(c, <<"Liabilities">>),
              net_worth |-> NetWorth(Total(c, <<"Assets">>),
                                     Total(c, <<"Liabilities">>))] :
                c \in {b.currency : b \in balances}})

QueryNetWorth(s, as_of_date) ==
    LET r == [Res("networth.summary", "ok") EXCEPT
                 !.args = Some([as_of_date |-> as_of_date])]
        af == Autoflush(delta[s], pending[s])
    IN  /\ Leave(s, IF ~af.ok
                    THEN FlushFailure([r EXCEPT !.status = "IntegrityError"])
                    ELSE Out("ok", af.delta, af.pending,
                             [r EXCEPT !.ret =
                                 Some(NetWorthSummary(ViewOf(af.delta),
                                                      as_of_date))]))
        /\ UNCHANGED <<db, cur, hist, next>>

\* ----------------------------------------- the balance and rate stores
FactAccounts ==
    { NewAccount(1, <<"Assets", SEP, "Bank">>, 1, "USD", None),
      NewAccount(2, <<"Liabilities", SEP, "Card">>, 1, "USD", None),
      NewAccount(3, <<"Expenses", SEP, "Food">>, 1, "USD", None) }

B(a, d, amt, c) == [account_id |-> a, date |-> d, amount |-> amt, currency |-> c]

BalanceInputs ==
    { B(1, 1, 50, "USD"), B(1, 1, 70, "USD"), B(1, 2, 70, "USD"),
      B(2, 1, 20, "USD"), B(3, 2, 50, "EUR"), B(1, 2, 30, "EUR") }

X(d, f, t, r, src) ==
    [date |-> d, from_currency |-> f, to_currency |-> t, rate |-> r,
     source |-> src]

RateInputs ==
    { X(1, "USD", "EUR", 2, None), X(1, "USD", "EUR", 3, Some("ecb")),
      X(2, "USD", "EUR", 3, None), X(2, "EUR", "USD", 2, None) }

NoBalances ==
    db.balances = {} /\ \A s \in Sessions : delta[s].ins.balances = {}
NoRates ==
    db.rates = {} /\ \A s \in Sessions : delta[s].ins.rates = {}

InitFacts ==
    Start(FactAccounts, 4, [s \in Sessions |-> IF s = "s1" THEN "idle" ELSE "out"])

\* One caller on the balance store or on the rate store (the two tables
\* are independent: a run fills one of them).
NextFacts ==
    \E s \in {"s1"} :
        \/ /\ Ready(s) /\ NoRates
           /\ \E b \in BalanceInputs :
                 BalanceUpsertLookup(s, b.account_id, b.date, b.amount, b.currency)
        \/ BalanceUpsertWrite(s)
        \/ /\ Ready(s) /\ NoRates
           /\ \E d \in Dates : QueryLatestBalances(s, d)
        \/ /\ Ready(s) /\ NoRates
           /\ \E d \in Dates : QueryNetWorth(s, d)
        \/ /\ Ready(s) /\ NoBalances
           /\ \E x \in RateInputs :
                 RateUpsertLookup(s, x.date, x.from_currency, x.to_currency,
                                  x.rate, x.source)
        \/ RateUpsertWrite(s)
        \/ /\ Ready(s) /\ NoBalances
           /\ \E f \in Currencies, t \in Currencies, d \in Dates :
                 f # t /\ QueryRate(s, f, t, d)
        \/ /\ Ready(s)
           /\ Commit(s)
        \/ /\ pc[s] \in {"idle", "raised", "inactive"}
           /\ Rollback(s)

SpecFacts == InitFacts /\ [][NextFacts]_vars

\* rows of one table, no two with the same natural key
OnePerKey(rows, Key(_)) == \A x \in rows : \A y \in rows : Key(x) = Key(y) => x = y

C12_Stored ==
    \A s \in Sessions :
        /\ OnePerKey(View(s).balances, BalanceKey)
        /\ OnePerKey(View(s).rates, RateKey)

C12_BalanceStep(s) ==
    LET r == last'[s]
        a == Val(r.args)
        before == View(s).balances
        after == View(s)'.balances
        same == {b \in before : BalanceKey(b) = <<a.account_id, a.date, a.currency>>}
    IN  (/\ r # last[s]
         /\ r.op = "balance.create_or_update"
         /\ \E x \in View(s).accounts : x.id = a.account_id) =>
           /\ r.status = "ok"
           /\ View(s)'.rates = View(s).rates
           /\ IF same # {}
              THEN \E b \in same :
                      /\ after = (before \ {b}) \cup {[b EXCEPT !.amount = a.amount]}
                      /\ r.ret = Some([b EXCEPT !.amount = a.amount])
              ELSE \E n \in after :
                      /\ after = before \cup {n}
                      /\ \A b \in before : b.id # n.id
                      /\ BalanceKey(n) = <<a.account_id, a.date, a.currency>>
                      /\ n.amount = a.amount
                      /\ n.is_verified
                      /\ r.ret = Some(n)

C12_RateStep(s) ==
    LET r == last'[s]
        a == Val(r.args)
        before == View(s).rates
        after == View(s)'.rates
        same == {x \in before : RateKey(x) = <<a.date, a.from_currency, a.to_currency>>}
    IN  (r # last[s] /\ r.op = "rate.create_or_update") =>
           /\ r.status = "ok"
           /\ View(s)'.balances = View(s).balances
           /\ \E n \in after :
                 /\ RateKey(n) = <<a.date, a.from_currency, a.to_currency>>
                 /\ n.rate = a.rate
                 /\ r.ret = Some(n)
                 /\ IF same # {}
                    THEN \E x \in same : n.id = x.id /\ after = (before \ {x}) \cup {n}
                    ELSE /\ after = before \cup {n}
                         /\ \A x \in before : x.id # n.id

\* C12: create_or_update is an upsert on the natural key: a call on a key
\* that is stored changes the amount (the rate) of that row and nothing
\* else, keeping its id; a call on a new key adds one row (a balance with
\* is_verified true); either way one row of the key holds the value of the
\* call and the rows of other keys are as before.
C12_UpsertOnNaturalKey ==
    [](C12_Stored) /\ [][\A s \in Sessions : C12_BalanceStep(s) /\ C12_RateStep(s)]_vars

C12_Witness ==
    LET r == last["s1"]
    IN  /\ r.op = "balance.create_or_update"
        /\ r.status = "ok"
        /\ ~r.created
        /\ Val(r.ret).amount = 70
        /\ \E b \in db.balances : b.id = Val(r.ret).id /\ b.amount = 50
        /\ \E b \in View("s1").balances : BalanceKey(b) # BalanceKey(Val(r.ret))

\* ------------------------------------- upserts of concurrent sessions
RaceBalanceInputs == {B(1, 1, 50, "USD"), B(1, 1, 70, "USD")}
RaceRateInputs == {X(1, "USD", "EUR", 2, None), X(1, "USD", "EUR", 3, None)}

InitRaceFacts == Start(FactAccounts, 4, [s \in Sessions |-> "out"])

\* Units of work under session_context that call create_or_update, all on
\* the balance store or all on the rate store.
NextRaceFacts ==
    \E s \in Sessions :
        \/ Enter(s)
        \/ /\ pc[s] = "idle" /\ NoRates
           /\ \A o \in Sessions : pc[o] # "upserting_rate"
           /\ \E b \in RaceBalanceInputs :
                 BalanceUpsertLookup(s, b.account_id, b.date, b.amount, b.currency)
        \/ BalanceUpsertWrite(s)
        \/ /\ pc[s] = "idle" /\ NoBalances
           /\ \A o \in Sessions : pc[o] # "upserting_balance"
           /\ \E x \in RaceRateInputs :
                 RateUpsertLookup(s, x.date, x.from_currency, x.to_currency,
                                  x.rate, x.source)
        \/ RateUpsertWrite(s)
        \/ ExitNormal(s)
        \/ ExitOnException(s)

SpecRaceFacts == InitRaceFacts /\ [][NextRaceFacts]_vars

Returned(s, op) == last[s].op = op /\ last[s].status = "ok"

\* C14: get_latest_balances(as_of_date = D) returns, for every (account,
\* currency) pair with a fact dated on or before D, exactly one fact, the
\* one of the pair with the greatest date not after D, and nothing else:
\* nothing of a pair whose facts are all later, and no fact dated after D.
C14_LatestBalances ==
    \A s \in Sessions :
        Returned(s, "balance.get_latest_balances") =>
            LET D == Val(last[s].args).as_of_date
                got == last[s].found
                facts == View(s).balances
                Pair(b) == <<b.account_id, b.currency>>
            IN  /\ got \subseteq facts
                /\ \A b \in got : b.date <= D
                /\ \A b \in facts :
                      b.date <= D =>
                          /\ Cardinality({g \in got : Pair(g) = Pair(b)}) = 1
                          /\ \A g \in got : Pair(g) = Pair(b) => g.date >= b.date
                /\ \A g \in got :
                      \A b \in facts :
                          (Pair(b) = Pair(g) /\ b.date <= D) => b.date <= g.date

\* asked as of date 1 with facts of one pair on dates 1 and 2 and a pair
\* whose only fact is of date 2
C14_Witness ==
    /\ Returned("s1", "balance.get_latest_balances")
    /\ Val(last["s1"].args).as_of_date = 1
    /\ \E b \in View("s1").balances, c \in View("s1").balances :
          /\ b.account_id = c.account_id /\ b.currency = c.currency
          /\ b.date = 1 /\ c.date = 2
          /\ b \in last["s1"].found
    /\ \E b \in View("s1").balances :
          /\ b.date = 2
          /\ \A c \in View("s1").balances :
                (c.account_id = b.account_id /\ c.currency = b.currency) => c = b

\* C15: get_rate(from, to, as_of_date) returns the rate of the stored fact
\* of exactly that ordered pair with the greatest date not after
\* as_of_date, and the absent value when there is no such fact.
C15_GetRate ==
    \A s \in Sessions :
        last[s].op = "rate.get_rate" =>
            LET a == Val(last[s].args)
                m == {x \in View(s).rates :
                         /\ x.from_currency = a.from_currency
                         /\ x.to_currency = a.to_currency
                         /\ x.date <= a.as_of_date}
            IN  /\ last[s].status = "ok"
                /\ m = {} => IsNone(last[s].ret)
                /\ m # {} =>
                      \E x \in m : /\ \A y \in m : y.date <= x.date
                                   /\ last[s].ret = Some(x.rate)

\* asked for EUR to USD as of date 1 when only USD to EUR of date 1 and a
\* EUR to USD rate of date 2 are stored: absent
C15_Witness ==
    /\ Returned("s1", "rate.get_rate")
    /\ Val(last["s1"].args).from_currency = "EUR"
    /\ Val(last["s1"].args).as_of_date = 1
    /\ IsNone(last["s1"].ret)
    /\ \E x \in View("s1").rates : x.from_currency = "USD" /\ x.date = 1
    /\ \E x \in View("s1").rates : x.from_currency = "EUR" /\ x.date = 2

\* the facts of the view v that are the latest of their (account, currency)
\* pair as of date D
LatestFacts(v, D) ==
    {b \in v.balances :
        /\ b.date <= D
        /\ \A c \in v.balances :
              (c.account_id = b.account_id /\ c.currency = b.currency /\ c.date <= D)
                 => c.date <= b.date}

\* those in currency c owned by an account of the given type
OwnedBy(v, D, c, type) ==
    {b \in LatestFacts(v, D) :
        /\ b.currency = c
        /\ \E a \in v.accounts : a.id = b.account_id /\ a.account_type = type}

\* C18: each entry of the net-worth summary has total_assets the sum of the
\* latest facts of its currency owned by Assets accounts, total_liabilities
\* that sum over Liabilities accounts, and net_worth their difference; facts
\* of other accounts count in neither; entries ascend by currency code.
C18_NetWorthTotals ==
    \A s \in Sessions :
        Returned(s, "networth.summary") =>
            LET D == Val(last[s].args).as_of_date
                out == Val(last[s].ret)
                v == View(s)
            IN  /\ \A i \in DOMAIN out :
                      /\ out[i].total_assets =
                            SumFacts(OwnedBy(v, D, out[i].currency, <<"Assets">>))
                      /\ out[i].total_liabilities =
                            SumFacts(OwnedBy(v, D, out[i].currency, <<"Liabilities">>))
                      /\ out[i].net_worth =
                            out[i].total_assets - out[i].total_liabilities
                /\ \A c \in Currencies :
                      (OwnedBy(v, D, c, <<"Assets">>)
                          \cup OwnedBy(v, D, c, <<"Liabilities">>)) # {} =>
                         \E i \in DOMAIN out : out[i].currency = c
                /\ \A i \in DOMAIN out : \A j \in DOMAIN out :
                      i < j => <<out[i].currency, out[j].currency>> = <<"EUR", "USD">>

C18_Witness ==
    /\ Returned("s1", "networth.summary")
    /\ Len(Val(last["s1"].ret)) = 2
    /\ \E b \in View("s1").balances : b.account_id = 3
    /\ \E i \in DOMAIN Val(last["s1"].ret) :
          /\ Val(last["s1"].ret)[i].total_assets = 70
          /\ Val(last["s1"].ret)[i].total_liabilities = 20
          /\ Val(last["s1"].ret)[i].net_worth = 50

\* C19: a currency is in the net-worth summary only if an Assets or a
\* Liabilities account has a latest fact in it as of the date.
C19_OnlyNetWorthCurrencies ==
    \A s \in Sessions :
        Returned(s, "networth.summary") =>
            LET D == Val(last[s].args).as_of_date
                out == Val(last[s].ret)
                v == View(s)
            IN  \A i \in DOMAIN out :
                    (OwnedBy(v, D, out[i].currency, <<"Assets">>)
                        \cup OwnedBy(v, D, out[i].currency, <<"Liabilities">>)) # {}

\* --------------------------------------------- balances from the postings
\* A DELETE of rows of table t by a transaction with delta d.
DeleteRows(d, t, rows) ==
    [d EXCEPT !.ins[t] = @ \ rows,
              !.gone[t] = @ \cup (rows \cap db[t])]

\* A slip: the delete does not reach the tags and links of the transaction.
TxnDeleteOut_keepsTags(d, p, transaction_id) ==
    LET r == [Res("transaction.delete", "ok") EXCEPT !.txn = transaction_id]
        af == Autoflush(d, p)
        v == ViewOf(af.delta)
        d1 == DeleteRows(af.delta, "transactions",
                         {h \in v.transactions : h.id = transaction_id})
        d2 == DeleteRows(d1, "postings",
                         {x \in v.postings : x.txn = transaction_id})
    IN  IF ~af.ok
        THEN FlushFailure([r EXCEPT !.status = "IntegrityError"])
        ELSE IF \E h \in v.transactions : h.id = transaction_id
        THEN Out("ok", d2, af.pending, [r EXCEPT !.ret = Some(TRUE)])
        ELSE Out("ok", af.delta, af.pending, [r EXCEPT !.ret = Some(FALSE)])

\* TransactionRepository.delete: the header and, by the cascades of
\* Transaction.postings, .links and .tags, every row that belongs to it
TxnDeleteOut(d, p, transaction_id) ==
    LET r == [Res("transaction.delete", "ok") EXCEPT !.txn = transaction_id]
        af == Autoflush(d, p)
        v == ViewOf(af.delta)
        d1 == DeleteRows(af.delta, "transactions",
                         {h \in v.transactions : h.id = transaction_id})
        d2 == DeleteRows(d1, "postings",
                         {x \in v.postings : x.txn = transaction_id})
        d3 == DeleteRows(d2, "tags", {x \in v.tags : x.txn = transaction_id})
        d4 == DeleteRows(d3, "links", {x \in v.links : x.txn = transaction_id})
    IN  IF ~af.ok
        THEN FlushFailure([r EXCEPT !.status = "IntegrityError"])
        ELSE IF \E h \in v.transactions : h.id = transaction_id
        THEN Out("ok", d4, af.pending, [r EXCEPT !.ret = Some(TRUE)])
        ELSE Out("ok", af.delta, af.pending, [r EXCEPT !.ret = Some(FALSE)])

TxnDelete(s, transaction_id) ==
    /\ Leave(s, TxnDeleteOut(delta[s], pending[s], transaction_id))
    /\ UNCHANGED <<db, cur, hist, next>>

\* Posting JOIN Transaction
Joined(v) ==
    {pt \in v.postings \X v.transactions : pt[1].txn = pt[2].id}

\* A slip: the currency filter is left out.
GetBalance_anyCurrency(v, account_id, as_of_date, currency) ==
    SumAmounts({pt[1] : pt \in {x \in Joined(v) :
                                   /\ x[1].account_id = account_id
                                   /\ x[2].date <= as_of_date}})

\* AccountRepository.get_balance: coalesce(sum(Posting.amount), 0)
GetBalance(v, account_id, as_of_date, currency) ==
    SumAmounts({pt[1] : pt \in {x \in Joined(v) :
                                   /\ x[1].account_id = account_id
                                   /\ x[1].currency = currency
                                   /\ x[2].date <= as_of_date}})

QueryBalance(s, account_id, as_of_date, currency) ==
    LET r == [Res("account.get_balance", "ok") EXCEPT
                 !.args = Some([account_id |-> account_id,
                                as_of_date |-> as_of_date,
                                currency |-> currency])]
        af == Autoflush(delta[s], pending[s])
    IN  /\ Leave(s, IF ~af.ok
                    THEN FlushFailure([r EXCEPT !.status = "IntegrityError"])
                    ELSE Out("ok", af.delta, af.pending,
                             [r EXCEPT !.ret =
                                 Some(GetBalance(ViewOf(af.delta), account_id,
                                                 as_of_date, currency))]))
        /\ UNCHANGED <<db, cur, hist, next>>

\* A slip: the opening balance counts the postings of the start date too.
BalanceBeforeDate_inclusive(v, account_id, before_date) ==
    SumAmounts({pt[1] : pt \in {x \in Joined(v) :
                                   /\ x[1].account_id = account_id
                                   /\ x[2].date <= before_date}})

\* TransactionRepository._calculate_balance_before_date
BalanceBeforeDate(v, account_id, before_date) ==
    SumAmounts({pt[1] : pt \in {x \in Joined(v) :
                                   /\ x[1].account_id = account_id
                                   /\ x[2].date < before_date}})

\* ------------------------------------------------------------- statement
DateOfTxn(v, id) == (CHOOSE h \in v.transactions : h.id = id).date

\* The order in which get_account_statement meets the postings: the
\* transactions of list_by_date_range(start, end, account_id) by date
\* (order_by(Transaction.date), equal dates in the store's order), and in
\* each the postings of the account in the order of txn.postings, which has
\* no order_by.
StatementOrders(v, account_id, start_date, end_date) ==
    LET txns == {h \in v.transactions :
                    /\ h.date >= start_date
                    /\ h.date <= end_date
                    /\ \E x \in v.postings :
                          x.txn = h.id /\ x.account_id = account_id}
        E == {x \in v.postings :
                 x.account_id = account_id /\ \E h \in txns : h.id = x.txn}
    IN  {o \in [1..Cardinality(E) -> E] :
            /\ \A i, j \in DOMAIN o : i # j => o[i] # o[j]
            /\ \A i, j \in DOMAIN o :
                  i < j => DateOfTxn(v, o[i].txn) <= DateOfTxn(v, o[j].txn)
            /\ \A i, j, k \in DOMAIN o :
                  (i < k /\ k < j /\ o[i].txn = o[j].txn) => o[k].txn = o[i].txn}

RECURSIVE Running(_, _, _, _)
\* the loop of get_account_statement from the i-th posting on
Running(v, order, i, running_balance) ==
    IF i > Len(order) THEN <<>>
    ELSE LET posting == order[i]
             b == running_balance
                    + (IF IsNone(posting.amount) THEN 0 ELSE Val(posting.amount))
         IN  <<[date |-> DateOfTxn(v, posting.txn),
                amount |-> posting.amount,
                currency |-> posting.currency,
                balance |-> b,
                transaction_id |-> posting.txn]>>
             \o Running(v, order, i + 1, b)

\* TransactionRepository.get_account_statement
QueryStatement(s, account_id, start_date, end_date) ==
    LET r == [Res("transaction.get_account_statement", "ok") EXCEPT
                 !.args = Some([account_id |-> account_id,
                                start_date |-> start_date,
                                end_date |-> end_date])]
        af == Autoflush(delta[s], pending[s])
        v == ViewOf(af.delta)
    IN  /\ IF ~af.ok
           THEN Leave(s, FlushFailure([r EXCEPT !.status = "IntegrityError"]))
           ELSE \E order \in StatementOrders(v, account_id, start_date, end_date) :
                   Leave(s, Out("ok", af.delta, af.pending,
                                [r EXCEPT !.ret =
                                    Some(Running(v, order, 1,
                                                 BalanceBeforeDate(v, account_id,
                                                                   start_date)))]))
        /\ UNCHANGED <<db, cur, hist, next>>

\* ------------------------------------------------- the reports, one caller
ReportCalls ==
    { Call(1, <<P(1, Some(100), None), P(2, Some(-100), None)>>, <<"a">>, <<>>),
      Call(2, <<P(1, Some(30), None), P(1, Some(-30), Some("EUR"))>>, <<>>, <<>>),
      Call(2, <<P(1, Some(50), Some("EUR")), P(2, None, Some("EUR"))>>, <<>>, <<>>) }

NextReport ==
    \E s \in {"s1"} :
        \/ /\ Ready(s)
           /\ \E call \in ReportCalls : CreateBegin(s, call)
        \/ CreateFinish(s)
        \/ /\ Ready(s)
           /\ \E t \in TxnIds : TxnDelete(s, t)
        \/ /\ Ready(s)
           /\ \E a \in {x.id : x \in SampleAccounts}, d \in Dates, c \in Currencies :
                 QueryBalance(s, a, d, c)
        \/ /\ Ready(s)
           /\ \E a \in {x.id : x \in SampleAccounts}, d1 \in Dates, d2 \in Dates :
                 QueryStatement(s, a, d1, d2)
        \/ /\ Ready(s)
           /\ Commit(s)
        \/ /\ pc[s] \in {"idle", "raised", "inactive"}
           /\ Rollback(s)

SpecReport == InitLedger /\ [][NextReport]_vars

\* the stored postings of an account whose transaction is dated in [lo, hi]
PostingsDated(v, account_id, lo, hi) ==
    {x \in v.postings :
        /\ x.account_id = account_id
        /\ \E h \in v.transactions : h.id = x.txn /\ h.date >= lo /\ h.date <= hi}

\* C16: get_balance(account_id, as_of_date, currency) is the sum of the
\* amounts of the stored postings on that account in that currency whose
\* transaction is dated on or before as_of_date (0 when there is none),
\* after any creations and deletions of transactions.
C16_GetBalance ==
    \A s \in Sessions :
        Returned(s, "account.get_balance") =>
            LET a == Val(last[s].args)
            IN  last[s].ret =
                   Some(SumAmounts({x \in PostingsDated(View(s), a.account_id,
                                                        0, a.as_of_date) :
                                       x.currency = a.currency}))

\* a transaction was deleted, and the balance asked for leaves out a posting
\* of another currency on the same account: 0.0030 USD beside -0.0030 EUR
C16_Witness ==
    /\ Returned("s1", "account.get_balance")
    /\ last["s1"].ret = Some(30)
    /\ \E t \in DOMAIN hist :
          hist[t].status = "ok" /\ IsNone(GetTxnById(View("s1"), t))
    /\ \E x \in View("s1").postings :
          /\ x.account_id = Val(last["s1"].args).account_id
          /\ x.currency # Val(last["s1"].args).currency

\* C17: get_account_statement(account_id, start, end) has one entry per
\* posting on the account whose transaction is dated in [start, end], by
\* ascending transaction date, and the balance of each entry is the sum of
\* the account's postings dated before start plus the amounts of the
\* entries up to and including it.
C17_Statement ==
    \A s \in Sessions :
        Returned(s, "transaction.get_account_statement") =>
            LET a == Val(last[s].args)
                st == Val(last[s].ret)
                v == View(s)
                E == PostingsDated(v, a.account_id, a.start_date, a.end_date)
                opening == SumAmounts(PostingsDated(v, a.account_id, 0,
                                                    a.start_date - 1))
            IN  /\ Len(st) = Cardinality(E)
                /\ \E f \in [DOMAIN st -> E] :
                      /\ \A i, j \in DOMAIN st : i # j => f[i] # f[j]
                      /\ \A i \in DOMAIN st :
                            /\ st[i].transaction_id = f[i].txn
                            /\ st[i].amount = f[i].amount
                            /\ st[i].currency = f[i].currency
                            /\ \E h \in v.transactions :
                                  h.id = f[i].txn /\ h.date = st[i].date
                /\ \A i, j \in DOMAIN st : i < j => st[i].date <= st[j].date
                /\ \A i \in DOMAIN st :
                      st[i].balance = opening + SumOver(st, 1..i)

\* two entries of date 2 in two currencies, after an opening balance that
\* is not zero
C17_Witness ==
    /\ Returned("s1", "transaction.get_account_statement")
    /\ Len(Val(last["s1"].ret)) = 2
    /\ Val(last["s1"].args).start_date = 2
    /\ Val(last["s1"].ret)[1].balance # Val(Val(last["s1"].ret)[1].amount)
    /\ Val(last["s1"].ret)[1].currency # Val(last["s1"].ret)[2].currency

\* -------------------------------------------------------- list_by_prefix
\* Account.name.startswith(prefix): the name begins with the characters of
\* the prefix (a name is the sequence of its pieces, "FoodTruck" being
\* "Food" then "Truck")
StartsWith(name, prefix) ==
    /\ Len(prefix) <= Len(name)
    /\ SubSeq(name, 1, Len(prefix)) = prefix

\* AccountRepository.list_by_prefix: the rows returned (their order, by
\* name in the store's collation, is not modelled)
ListByPrefix(v, prefix) == {a \in v.accounts : StartsWith(a.name, prefix)}

QueryPrefix(s, prefix) ==
    LET r == [Res("account.list_by_prefix", "ok") EXCEPT !.name = prefix]
        af == Autoflush(delta[s], pending[s])
    IN  /\ Leave(s, IF ~af.ok
                    THEN FlushFailure([r EXCEPT !.status = "IntegrityError"])
                    ELSE Out("ok", af.delta, af.pending,
                             [r EXCEPT !.found =
                                 ListByPrefix(ViewOf(af.delta), prefix)]))
        /\ UNCHANGED <<db, cur, hist, next>>

PrefixNames ==
    { <<"Expenses", SEP, "Food">>,
      <<"Expenses", SEP, "Food", SEP, "Groceries">>,
      <<"Expenses", SEP, "Food", "Truck">>,
      <<"Assets", SEP, "Bank">> }

Prefixes == { <<"Expenses", SEP, "Food">>, <<"Expenses">>, <<"Assets", SEP>> }

\* The account directory searched by prefix, one caller.
NextPrefix ==
    \E s \in {"s1"} :
        \/ /\ Ready(s)
           /\ \E name \in PrefixNames, a \in AccountArgs :
                 AccountCreate(s, name, a.open_date, a.currency, a.description)
        \/ /\ Ready(s)
           /\ \E prefix \in Prefixes : QueryPrefix(s, prefix)
        \/ /\ Ready(s)
           /\ Commit(s)
        \/ /\ pc[s] \in {"idle", "raised", "inactive"}
           /\ Rollback(s)

SpecPrefix == Init /\ [][NextPrefix]_vars

\* C20: list_by_prefix(prefix) returns the accounts whose name is the prefix
\* or continues it at a colon, and no account whose name merely continues
\* the last segment of the prefix.
C20_PrefixAtSegments ==
    \A s \in Sessions :
        Returned(s, "account.list_by_prefix") =>
            LET prefix == last[s].name
            IN  last[s].found =
                   {a \in View(s).accounts :
                       /\ StartsWith(a.name, prefix)
                       /\ \/ Len(a.name) = Len(prefix)
                          \/ a.name[Len(prefix) + 1] = SEP
                          \/ prefix[Len(prefix)] = SEP}

\* A slip: the delete does not reach the balance facts of the account.
AcctDeleteOut_keepsBalances(d, p, account_id) ==
    LET r == [Res("account.delete", "ok") EXCEPT
                 !.args = Some([account_id |-> account_id])]
        af == Autoflush(d, p)
        v == ViewOf(af.delta)
        d1 == DeleteRows(af.delta, "accounts",
                         {a \in v.accounts : a.id = account_id})
        d2 == DeleteRows(d1, "postings",
                         {x \in v.postings : x.account_id = account_id})
    IN  IF ~af.ok
        THEN FlushFailure([r EXCEPT !.status = "IntegrityError"])
        ELSE IF \E a \in v.accounts : a.id = account_id
        THEN Out("ok", d2, af.pending, [r EXCEPT !.ret = Some(TRUE)])
        ELSE Out("ok", af.delta, af.pending, [r EXCEPT !.ret = Some(FALSE)])

\* ------------------------------------------------------- account delete
\* AccountRepository.delete: the account and, by the cascades of
\* Account.postings and Account.balances, every posting and balance fact on
\* it; the transactions of those postings stay
AcctDeleteOut(d, p, account_id) ==
    LET r == [Res("account.delete", "ok") EXCEPT
                 !.args = Some([account_id |-> account_id])]
        af == Autoflush(d, p)
        v == ViewOf(af.delta)
        d1 == DeleteRows(af.delta, "accounts",
                         {a \in v.accounts : a.id = account_id})
        d2 == DeleteRows(d1, "postings",
                         {x \in v.postings : x.account_id = account_id})
        d3 == DeleteRows(d2, "balances",
                         {b \in v.balances : b.account_id = account_id})
    IN  IF ~af.ok
        THEN FlushFailure([r EXCEPT !.status = "IntegrityError"])
        ELSE IF \E a \in v.accounts : a.id = account_id
        THEN Out("ok", d3, af.pending, [r EXCEPT !.ret = Some(TRUE)])
        ELSE Out("ok", af.delta, af.pending, [r EXCEPT !.ret = Some(FALSE)])

AcctDelete(s, account_id) ==
    /\ Leave(s, AcctDeleteOut(delta[s], pending[s], account_id))
    /\ UNCHANGED <<db, cur, hist, next>>

\* a call together with the arguments its caller passed
WithArgs(out, args) == [out EXCEPT !.res.args = Some(args)]

CloseAccountCall(s, account_id, close_date) ==
    /\ Leave(s, WithArgs(CloseAccountOut(delta[s], pending[s], account_id,
                                         close_date),
                         [account_id |-> account_id, close_date |-> close_date]))
    /\ UNCHANGED <<db, cur, hist, next>>

UpdatePostingAccountCall(s, transaction_id, old_account_id, new_account_id) ==
    /\ \E pick \in Picks(s, transaction_id, old_account_id) :
          Leave(s, WithArgs(UpdatePostingAccountOut(delta[s], pending[s],
                                transaction_id, old_account_id,
                                new_account_id, pick),
                            [old_account_id |-> old_account_id,
                             new_account_id |-> new_account_id]))
    /\ UNCHANGED <<db, cur, hist, next>>

\* ------------------------------------------------ the accounts, one caller
\* The directory with what hangs on an account. At the start account 1 is
\* stored with a balance fact and the two postings of a transfer.
BookNames == { <<"Expenses", SEP, "Food">> }
BookBalances == { B(2, 1, 20, "USD") }

InitAccounts ==
    /\ db = [EmptyTables EXCEPT
               !.accounts = {NewAccount(1, <<"Assets", SEP, "Bank">>, 1, "USD", None)},
               !.transactions = {[id |-> 1, date |-> 1]},
               !.postings = {[txn |-> 1, position |-> 0, account_id |-> 1,
                              amount |-> Some(30), currency |-> "USD"],
                             [txn |-> 1, position |-> 1, account_id |-> 1,
                              amount |-> Some(-30), currency |-> "USD"]},
               !.balances = {NewBalance(1, 1, 1, 50, "USD")}]
    /\ delta = [s \in Sessions |-> EmptyDelta]
    /\ pending = [s \in Sessions |-> EmptyPending]
    /\ pc = [s \in Sessions |-> IF s = "s1" THEN "idle" ELSE "out"]
    /\ cur = [s \in Sessions |-> None]
    /\ last = [s \in Sessions |-> NoResult]
    /\ hist = <<>>
    /\ next = [acc |-> 2, txn |-> 2, bal |-> 2, rate |-> 1]

NextAccounts ==
    \E s \in {"s1"} :
        \/ /\ Ready(s)
           /\ \E name \in BookNames :
                 AccountCreate(s, name, 1, "USD", None)
        \/ /\ Ready(s)
           /\ \E id \in AccountIds, d \in Dates : CloseAccountCall(s, id, d)
        \/ /\ Ready(s)
           /\ \E id \in AccountIds : AcctDelete(s, id)
        \/ /\ Ready(s)
           /\ \E b \in BookBalances :
                 BalanceUpsertLookup(s, b.account_id, b.date, b.amount, b.currency)
        \/ BalanceUpsertWrite(s)
        \/ /\ Ready(s)
           /\ Commit(s)
        \/ /\ pc[s] \in {"idle", "raised", "inactive"}
           /\ Rollback(s)

SpecAccounts == InitAccounts /\ [][NextAccounts]_vars

\* the tables of a view other than the accounts
Others == Tables \ {"accounts"}

\* C21: close_account(id, close_date) on a stored account sets its
\* close_date to the given date and is_active to false, returns it, and
\* changes nothing else: its other fields, the other accounts, and every
\* posting, balance fact and transaction are as before; on an unknown id it
\* returns None without error and changes nothing.
C21_CloseAccount ==
    [][\A s \in Sessions :
          LET r == last'[s]
              a == Val(r.args)
              before == View(s).accounts
              after == View(s)'.accounts
              hit == {x \in before : x.id = a.account_id}
          IN  (r # last[s] /\ r.op = "account.close_account") =>
                 /\ r.status = "ok"
                 /\ \A t \in Others : View(s)'[t] = View(s)[t]
                 /\ IF hit = {}
                    THEN IsNone(r.acct) /\ after = before
                    ELSE \E x \in hit :
                            LET y == [x EXCEPT !.close_date = Some(a.close_date),
                                               !.is_active = FALSE]
                            IN  r.acct = Some(y) /\ after = (before \ {x}) \cup {y}]_vars

\* an account that was closed on date 1 and committed is closed again on
\* date 2, with postings and a balance fact on it and another account stored
C21_Witness ==
    LET r == last["s1"]
    IN  /\ r.op = "account.close_account"
        /\ r.status = "ok"
        /\ ~IsNone(r.acct)
        /\ Val(r.acct) \in View("s1").accounts
        /\ Val(r.acct).close_date = Some(2)
        /\ \E x \in db.accounts : x.id = Val(r.acct).id /\ x.close_date = Some(1)
        /\ \E x \in View("s1").postings : x.account_id = Val(r.acct).id
        /\ \E b \in View("s1").balances : b.account_id = Val(r.acct).id
        /\ \E x \in View("s1").accounts : x.id # Val(r.acct).id

\* every posting and balance fact of a view is on an account of the view
NoDangling(v) ==
    /\ \A x \in v.postings : \E a \in v.accounts : a.id = x.account_id
    /\ \A b \in v.balances : \E a \in v.accounts : a.id = b.account_id

C22_Step(s) ==
    LET r == last'[s]
        id == Val(r.args).account_id
        before == View(s)
        after == View(s)'
    IN  (r # last[s] /\ r.op = "account.delete") =>
           /\ r.status = "ok"
           /\ IF \E a \in before.accounts : a.id = id
              THEN /\ r.ret = Some(TRUE)
                   /\ after.accounts = {a \in before.accounts : a.id # id}
                   /\ after.postings = {x \in before.postings : x.account_id # id}
                   /\ after.balances = {b \in before.balances : b.account_id # id}
                   /\ \A t \in Tables \ {"accounts", "postings", "balances"} :
                         after[t] = before[t]
              ELSE /\ r.ret = Some(FALSE)
                   /\ after = before

\* C22: after AccountRepository.delete(id) returns true the account, its
\* postings and its balance facts are gone and everything else is as before;
\* on an unknown id it returns false and changes nothing; no stored posting
\* or balance fact is on a missing account.
C22_DeleteAccount ==
    /\ [](\A s \in Sessions : NoDangling(View(s)))
    /\ [][\A s \in Sessions : C22_Step(s)]_vars

\* account 1 was deleted with its two postings and its balance fact, and
\* account 2 is still there with its balance fact
C22_Witness ==
    LET r == last["s1"]
        v == View("s1")
    IN  /\ r.op = "account.delete"
        /\ r.ret = Some(TRUE)
        /\ Val(r.args).account_id = 1
        /\ \E x \in db.postings : x.account_id = 1
        /\ \E b \in db.balances : b.account_id = 1
        /\ v.postings = {}
        /\ v.transactions # {}
        /\ \E a \in v.accounts : \E b \in v.balances : b.account_id = a.id

\* an account row is inactive exactly when its close_date is set
ClosedIffInactive(a) == (~a.is_active) <=> ~IsNone(a.close_date)

\* a closed account of rows before is, if still in rows after, closed there
StaysClosed(before, after) ==
    \A a \in before : \A b \in after :
        (a.id = b.id /\ ~a.is_active) => (~b.is_active /\ ~IsNone(b.close_date))

C27_Stored ==
    /\ \A a \in AllAccountRows : ClosedIffInactive(a)
    /\ \A s \in Sessions :
          (last[s].op = "account.create" /\ last[s].status = "ok") =>
              (Val(last[s].acct).is_active /\ IsNone(Val(last[s].acct).close_date))

C27_Step ==
    /\ StaysClosed(db.accounts, db.accounts')
    /\ \A s \in Sessions :
          (last'[s].status = "ok" /\ last'[s].op # "rollback") =>
              StaysClosed(View(s).accounts, View(s)'.accounts)

\* C27: in every reachable state an account is inactive exactly when its
\* close_date is set; a created account is active with no close_date; no
\* call that returns, and no step of the committed store, makes a closed
\* account active again or clears its close_date.
C27_ActiveIffOpen == [](C27_Stored) /\ [][C27_Step]_vars

\* an account committed as closed is closed again, beside a created account
\* that is active
C27_Witness ==
    LET r == last["s1"]
    IN  /\ r.op = "account.close_account"
        /\ r.status = "ok"
        /\ ~IsNone(r.acct)
        /\ \E a \in db.accounts : a.id = Val(r.acct).id /\ ~a.is_active
        /\ ~Val(r.acct).is_active
        /\ \E a \in View("s1").accounts :
              a.id # Val(r.acct).id /\ a.is_active /\ IsNone(a.close_date)

\* ------------------------------------------------- the journal, one caller
\* the calls of the journal, each made once: a purchase with a tag and a
\* link, and a transfer whose two postings are on the same account
JournalCalls ==
    { Call(1, <<P(1, Some(100), None), P(2, Some(-100), None)>>, <<"a">>, <<"k">>),
      Call(2, <<P(1, Some(30), None), P(1, Some(-30), None)>>, <<>>, <<>>) }

NextJournal ==
    \E s \in {"s1"} :
        \/ /\ Ready(s)
           /\ \E call \in JournalCalls :
                 /\ \A t \in DOMAIN hist : hist[t].call # call
                 /\ CreateBegin(s, call)
        \/ CreateFinish(s)
        \/ /\ Ready(s)
           /\ \E t \in TxnIds, old \in AccountIds, new \in AccountIds :
                 UpdatePostingAccountCall(s, t, old, new)
        \/ /\ Ready(s)
           /\ \E t \in TxnIds : TxnDelete(s, t)
        \/ /\ Ready(s)
           /\ \E id \in AccountIds : AcctDelete(s, id)
        \/ /\ Ready(s)
           /\ Commit(s)
        \/ /\ pc[s] \in {"idle", "raised", "inactive"}
           /\ Rollback(s)

SpecJournal == InitLedger /\ [][NextJournal]_vars

\* the rows of table t of view v that do not belong to transaction id
Without(v, t, id) ==
    IF t = "transactions" THEN {h \in v[t] : h.id # id}
    ELSE IF t \in {"postings", "tags", "links"} THEN {x \in v[t] : x.txn # id}
    ELSE v[t]

C23_Step(s) ==
    LET r == last'[s]
        id == r.txn
        before == View(s)
        after == View(s)'
        gone == {x \in before.postings : x.txn = id}
    IN  (r # last[s] /\ r.op = "transaction.delete") =>
           /\ r.status = "ok"
           /\ IF \E h \in before.transactions : h.id = id
              THEN /\ r.ret = Some(TRUE)
                   /\ \A t \in Tables : after[t] = Without(before, t, id)
                   /\ IsNone(GetTxnById(after, id))
                   /\ \A t \in TxnIds \ {id} :
                         GetTxnById(after, t) = GetTxnById(before, t)
                   /\ \A a \in AccountIds, d \in Dates, c \in Currencies :
                         GetBalance(after, a, d, c) =
                            GetBalance(before, a, d, c)
                              - SumAmounts({x \in gone :
                                               /\ x.account_id = a
                                               /\ x.currency = c
                                               /\ DateOfTxn(before, id) <= d})
              ELSE /\ r.ret = Some(FALSE)
                   /\ after = before

\* C23: after TransactionRepository.delete(id) returns true the header and
\* all postings, tags and links of the transaction are gone, get_by_id(id)
\* finds nothing, every get_balance is less by the deleted postings it
\* counted, and the other transactions are as before; a delete of an unknown
\* id returns false and changes nothing.
C23_DeleteTransaction == [][\A s \in Sessions : C23_Step(s)]_vars

\* the committed purchase, with its tag and link, was deleted beside the
\* transfer, and the balance of account 1 is no longer the committed one
C23_Witness ==
    LET r == last["s1"]
        v == View("s1")
    IN  /\ r.op = "transaction.delete"
        /\ r.ret = Some(TRUE)
        /\ \E x \in db.tags : x.txn = r.txn
        /\ \E x \in db.links : x.txn = r.txn
        /\ v.tags = {} /\ v.links = {}
        /\ v.transactions # {}
        /\ GetBalance(v, 1, 2, "USD") # GetBalance(ViewOf(EmptyDelta), 1, 2, "USD")

\* C24: update_posting_account(transaction_id, old, new), new being a stored
\* account, moves to new exactly one posting: the one of lowest position
\* among the postings of that transaction on old, and changes no amount,
\* currency or position and no other row, so the transaction's sum is as
\* before; when the transaction is not stored or has no posting on old,
\* nothing is changed.
C24_FirstPostingMoved ==
    [][\A s \in Sessions :
          LET r == last'[s]
              a == Val(r.args)
              before == View(s)
              after == View(s)'
              cand == {x \in before.postings :
                          x.txn = r.txn /\ x.account_id = a.old_account_id}
              first == CHOOSE x \in cand : \A y \in cand : x.position <= y.position
          IN  (/\ r # last[s]
               /\ r.op = "transaction.update_posting_account"
               /\ \E x \in before.accounts : x.id = a.new_account_id) =>
                 /\ r.status = "ok"
                 /\ \A t \in Tables \ {"postings"} : after[t] = before[t]
                 /\ IF cand = {} \/ ~\E h \in before.transactions : h.id = r.txn
                    THEN after.postings = before.postings
                    ELSE /\ after.postings =
                               (before.postings \ {first})
                                 \cup {[first EXCEPT !.account_id = a.new_account_id]}
                         /\ SumAmounts(PostingsOf(after, r.txn))
                               = SumAmounts(PostingsOf(before, r.txn))]_vars

\* the committed store and the view of every session
AllViews == {ViewOf(EmptyDelta)} \cup {View(s) : s \in Sessions}

\* C26: in every reachable state every stored transaction is balanced: the
\* amounts of the postings it still has sum to less than 0.001 in absolute
\* value.
C26_StoredBalanced ==
    \A v \in AllViews :
        \A h \in v.transactions : IsBalanced(PostingsOf(v, h.id))

\* ------------------------------------------------------------------ search
\* A slip: the upper bound is not applied.
InRange_ignoresMax(x, min_amount, max_amount) ==
    /\ ~IsNone(x.amount)
    /\ IsNone(min_amount) \/ Abs(Val(x.amount)) >= Val(min_amount)

\* func.abs(Posting.amount) >= min_amount and <= max_amount, each where
\* clause only when its bound is given; a NULL amount satisfies neither
InRange(x, min_amount, max_amount) ==
    /\ ~IsNone(x.amount)
    /\ IsNone(min_amount) \/ Abs(Val(x.amount)) >= Val(min_amount)
    /\ IsNone(max_amount) \/ Abs(Val(x.amount)) <= Val(max_amount)

\* The rows of the search query: a header, joined with its tag row when a
\* tag is asked for and with one of its postings when a bound is given.
\* A row is <<header, tag row or None, posting or None>>.
SearchRows(v, tag, min_amount, max_amount) ==
    LET tagged(h) == IF IsNone(tag) THEN {None}
                     ELSE {Some(x) : x \in {y \in v.tags :
                                               y.txn = h.id /\ y.tag = Val(tag)}}
        bounded(h) == IF IsNone(min_amount) /\ IsNone(max_amount) THEN {None}
                      ELSE {Some(x) : x \in {y \in v.postings :
                                                /\ y.txn = h.id
                                                /\ InRange(y, min_amount, max_amount)}}
    IN  UNION {{<<h, t, x>> : t \in tagged(h), x \in bounded(h)} :
                  h \in v.transactions}

RECURSIVE DateDescending(_)
\* order_by(Transaction.date.desc()): every order of the rows by falling
\* date, rows of one date in whatever order the store yields them
DateDescending(rows) ==
    IF rows = {} THEN {<<>>}
    ELSE LET top == {x \in rows : \A y \in rows : y[1].date <= x[1].date}
         IN  UNION {{<<x>> \o rest : rest \in DateDescending(rows \ {x})} :
                       x \in top}

\* .limit(limit)
Limit(seq, limit) ==
    SubSeq(seq, 1, IF Len(seq) < limit THEN Len(seq) ELSE limit)

RECURSIVE Unique(_, _)
\* result.scalars().unique(): the headers of the rows, each at its first
\* occurrence
Unique(seq, seen) ==
    IF seq = <<>> THEN <<>>
    ELSE LET h == seq[1][1]
         IN  IF h.id \in seen THEN Unique(Tail(seq), seen)
             ELSE <<h>> \o Unique(Tail(seq), seen \cup {h.id})

\* TransactionRepository.search with the filters tag, min_amount and
\* max_amount (query_text and payee are not passed): the lists it may return
Search(v, tag, min_amount, max_amount, limit) ==
    {[i \in DOMAIN u |-> Hydrate(v, u[i])] :
        u \in {Unique(Limit(o, limit), {}) :
                  o \in DateDescending(SearchRows(v, tag, min_amount, max_amount))}}

QuerySearch(s, tag, min_amount, max_amount, limit) ==
    LET r == [Res("transaction.search", "ok") EXCEPT
                 !.args = Some([tag |-> tag, min_amount |-> min_amount,
                                max_amount |-> max_amount, limit |-> limit])]
        af == Autoflush(delta[s], pending[s])
    IN  /\ IF ~af.ok
           THEN Leave(s, FlushFailure([r EXCEPT !.status = "IntegrityError"]))
           ELSE \E out \in Search(ViewOf(af.delta), tag, min_amount,
                                  max_amount, limit) :
                   Leave(s, Out("ok", af.delta, af.pending,
                                [r EXCEPT !.ret = Some(out)]))
        /\ UNCHANGED <<db, cur, hist, next>>

\* the calls of the search specification, each made once: 0.0100 on two
\* postings with a tag; 0.0070 on two postings, a day later; and postings of
\* 0.0030, 0.0170 and 0.0200
SearchCalls ==
    { Call(1, <<P(1, Some(100), None), P(2, Some(-100), None)>>, <<"a">>, <<>>),
      Call(2, <<P(1, Some(70), None), P(2, None, None)>>, <<>>, <<>>),
      Call(2, <<P(1, Some(30), None), P(2, Some(170), None),
                P(1, Some(-200), None)>>, <<"a">>, <<>>) }

\* (min_amount, max_amount) of the searches
SearchBounds ==
    { <<Some(60), Some(100)>>, <<Some(60), None>>, <<None, Some(100)>>,
      <<None, None>> }

SearchLimits == {1, 2}

NextSearch ==
    \E s \in {"s1"} :
        \/ /\ Ready(s)
           /\ \E call \in SearchCalls :
                 /\ \A t \in DOMAIN hist : hist[t].call # call
                 /\ CreateBegin(s, call)
        \/ CreateFinish(s)
        \/ /\ Ready(s)
           /\ \E tag \in {None, Some("a")}, b \in SearchBounds, n \in SearchLimits :
                 QuerySearch(s, tag, b[1], b[2], n)
        \/ /\ Ready(s)
           /\ Commit(s)
        \/ /\ pc[s] \in {"idle", "raised", "inactive"}
           /\ Rollback(s)

SpecSearch == InitLedger /\ [][NextSearch]_vars

\* a posting whose absolute amount is within the bounds that are given
Within(x, lo, hi) ==
    /\ ~IsNone(x.amount)
    /\ IsNone(lo) \/ Val(lo) <= Abs(Val(x.amount))
    /\ IsNone(hi) \/ Abs(Val(x.amount)) <= Val(hi)

\* C25: search with min_amount and/or max_amount returns a transaction only
\* if one posting of it has an absolute amount within both bounds; every
\* transaction it returns is stored, appears once, the results are in
\* descending date order, and there are at most limit of them.
C25_SearchByAmount ==
    \A s \in Sessions :
        (Returned(s, "transaction.search") /\ pc[s] = "idle") =>
            LET a == Val(last[s].args)
                out == Val(last[s].ret)
            IN  /\ \A i \in DOMAIN out :
                      /\ GetTxnById(View(s), out[i].id) = Some(out[i])
                      /\ (~IsNone(a.min_amount) \/ ~IsNone(a.max_amount)) =>
                            \E x \in PostingsOf(View(s), out[i].id) :
                                Within(x, a.min_amount, a.max_amount)
                /\ \A i, j \in DOMAIN out : i # j => out[i].id # out[j].id
                /\ \A i, j \in DOMAIN out : i < j => out[i].date >= out[j].date
                /\ Len(out) <= a.limit

\* a search between 0.0060 and 0.0100 with limit 2 returned one transaction
\* and left out a stored one whose postings meet the two bounds only
\* separately
C25_Witness ==
    LET a == Val(last["s1"].args)
        out == Val(last["s1"].ret)
    IN  /\ Returned("s1", "transaction.search")
        /\ pc["s1"] = "idle"
        /\ a.min_amount = Some(60) /\ a.max_amount = Some(100)
        /\ a.limit = 2
        /\ Len(out) = 1
        /\ \E h \in View("s1").transactions :
              /\ \A i \in DOMAIN out : out[i].id # h.id
              /\ \E x \in PostingsOf(View("s1"), h.id) : Within(x, Some(60), None)
              /\ \E x \in PostingsOf(View("s1"), h.id) : Within(x, None, Some(100))

\* the stored transactions that match the filters of a search
Matching(v, a) ==
    {h \in v.transactions :
        /\ IsNone(a.tag) \/ \E x \in v.tags : x.txn = h.id /\ x.tag = Val(a.tag)
        /\ (IsNone(a.min_amount) /\ IsNone(a.max_amount))
              \/ \E x \in PostingsOf(v, h.id) : Within(x, a.min_amount, a.max_amount)}

\* C29: when N stored transactions match the filters of a search (a tag, an
\* amount range), it returns min(N, limit) distinct transactions, and they
\* are the most recent matching ones.
C29_SearchFillsLimit ==
    \A s \in Sessions :
        (Returned(s, "transaction.search") /\ pc[s] = "idle") =>
            LET a == Val(last[s].args)
                out == Val(last[s].ret)
                M == Matching(View(s), a)
                N == Cardinality(M)
                got == {out[i].id : i \in DOMAIN out}
            IN  /\ Len(out) = IF N < a.limit THEN N ELSE a.limit
                /\ Cardinality(got) = Len(out)
                /\ got \subseteq {h.id : h \in M}
                /\ \A h \in M : h.id \notin got =>
                      \A i \in DOMAIN out : h.date <= out[i].date

\* C28: when sessions call BalanceRepository.create_or_update on the same
\* (account_id, date, currency) concurrently, every call completes without
\* error, and a commit leaves one row of the key, holding the amount of the
\* call that committed.
C28_ConcurrentUpsert ==
    /\ [](\A s \in Sessions :
             last[s].op = "balance.create_or_update" => last[s].status = "ok")
    /\ [][\A s \in Sessions :
             (pc[s] = "idle" /\ pc'[s] = "out" /\ last'[s].status = "ok") =>
                 \A b \in delta[s].ins.balances :
                     {x \in db'.balances : BalanceKey(x) = BalanceKey(b)} = {b}]_vars

\* C30: the balance of the last entry of a statement of an account over
\* [start, end] that is not empty is get_balance(account_id, end, c), c
\* being the currency of that entry.
C30_StatementEndsAtBalance ==
    \A s \in Sessions :
        (Returned(s, "transaction.get_account_statement") /\ pc[s] = "idle") =>
            LET a == Val(last[s].args)
                st == Val(last[s].ret)
            IN  st # <<>> =>
                   st[Len(st)].balance =
                      GetBalance(View(s), a.account_id, a.end_date,
                                 st[Len(st)].currency)

====
